---- MODULE Spec2Model ----
(***************************************************************************)
(* Model of the Contec ECG90A reader and exporters (ecg_contec.py) and of  *)
(* the SCP-ECG helpers it calls (ecg_scp.py).                              *)
(*                                                                         *)
(* The device file is kept as it lies on disk: a header, then rows of      *)
(* data_series little-endian samples, then whatever bytes are left over.   *)
(* Runs of equal rows are kept as one segment with a repeat count, so that *)
(* recordings longer than the SCP-ECG limit of 32767 samples can be        *)
(* written down.                                                           *)
(***************************************************************************)
EXTENDS Integers, Sequences, FiniteSets, TLC

VARIABLES
    file,       \* the device file on disk
    rec,        \* the ecg object (the recording)
    csvFile,    \* the CSV output path: NoFile, or the lines it holds
    scpFile,    \* the SCP-ECG output path: NoFile, or the record it holds
    its,        \* the row iterators (generators returned by readline)
    last,       \* what the last call did: its name, return value, effects
    sd,         \* a second_diff object and what it was fed and returned
    hd,         \* a huffman_decoder.decode generator over its input bytes
    sec         \* a section buffer and the header read back from it

vars == << file, rec, csvFile, scpFile, its, last, sd, hd, sec >>

----------------------------------------------------------------------------
(* Program constants *)

HEADER_LEN == 43
FOOTER_LEN == 37
NULL_VALUE == 26624
ECG90A_SAMPLE_BITS == 16
ECG90A_DATA_SERIES == 8
ECG90A_XOFFSET == -2048
DEFAULT_CSV_COLUMNS == 12
LEADS_NUMBER == 12

\* The error bits of ecg.err.
FILE_MISSING == 1
HEADER_INVALID == 2
SHORT_READ == 4
UNEXPECTED_EOD == 8
OUTPUT_EXISTS == 16
TIMESTAMP_BAD == 64
SAMPLES_TRUNCATED == 128

\* Python's None in a row cell: a value no sample arithmetic can produce.
None == -99999999

----------------------------------------------------------------------------
(* Bounds of the model *)

\* Rows a client-driven iterator may be stepped through, one next() a time.
MaxStepRows == 6
\* Rows of the long recordings (one more than the SCP-ECG limit).
LongRows == 32768

----------------------------------------------------------------------------
(* Integer helpers *)

RECURSIVE BitOr(_, _)
BitOr(a, b) ==
    IF a = 0 THEN b
    ELSE IF b = 0 THEN a
    ELSE (IF a % 2 = 1 \/ b % 2 = 1 THEN 1 ELSE 0) + 2 * BitOr(a \div 2, b \div 2)

RECURSIVE BitAnd(_, _)
BitAnd(a, b) ==
    IF a = 0 \/ b = 0 THEN 0
    ELSE (IF a % 2 = 1 /\ b % 2 = 1 THEN 1 ELSE 0) + 2 * BitAnd(a \div 2, b \div 2)

HasBit(e, b) == BitAnd(e, b) = b

\* int(a / b) of Python for b > 0: the quotient truncated toward zero.
TruncDiv(a, b) == IF a >= 0 THEN a \div b ELSE -((-a) \div b)

\* a % b of Python for b > 0: the remainder has the sign of the divisor.
PyMod(a, b) == a - b * (a \div b)

Min(a, b) == IF a <= b THEN a ELSE b

\* int.to_bytes(v, n, 'little') / struct.pack of an unsigned value.
RECURSIVE ToBytesLE(_, _)
ToBytesLE(v, n) == IF n = 0 THEN << >> ELSE << v % 256 >> \o ToBytesLE(v \div 256, n - 1)

\* int.from_bytes(data, byteorder='little')
RECURSIVE FromBytesLE(_)
FromBytesLE(data) ==
    IF Len(data) = 0 THEN 0 ELSE data[1] + 256 * FromBytesLE(Tail(data))

----------------------------------------------------------------------------
(* The device file *)

\* Values the constructor is called with.
DataSeriesSet == {1, ECG90A_DATA_SERIES, 20}
SampleBitsSet == {12, ECG90A_SAMPLE_BITS}
\* Values the exporters and readline are called with.
XoffsetSet == {ECG90A_XOFFSET}
ColsSet == {6, DEFAULT_CSV_COLUMNS}

\* Timestamp strings found in headers; the first is the one of scenario S1.
GoodTimestamp == "2020-01-02 03:04:05"
BadTimestamp == "02/01/2020 3:04"
FileMtime == "2021-06-07 08:09:10"

\* A raw row on disk: data_series samples of two bytes each, little-endian.
\* a is the first series (lead II), b the second (lead III), c all others.
MkRow(ds, a, b, c) ==
    [i \in 1..ds |-> ToBytesLE(IF i = 1 THEN a ELSE IF i = 2 THEN b ELSE c, 2)]

ZeroRow(ds) == MkRow(ds, 0, 0, 0)
\* Raw value of a sample the device shows as v (it stores v + 2048).
Raw(v) == v + 2048

RowBytes(ds) == ds * 2

Seg(row, n) == [row |-> row, n |-> n]

\* The rows and the left-over bytes that a run of nbytes zero bytes makes.
ZeroRun(ds, nbytes) ==
    IF nbytes \div RowBytes(ds) > 0
    THEN << Seg(ZeroRow(ds), nbytes \div RowBytes(ds)) >>
    ELSE << >>

\* The header fields other than the timestamp, as they lie in the header:
\* case (8 bytes), patient name (8 bytes), sex, age, weight (1 byte each).
\* S1Patient is the header of scenario S1: case "T1", name "X", male, 30, 70.
HeaderFields(case, name, sex, age, weight) ==
    [case |-> case \o [i \in 1..(8 - Len(case)) |-> 0],
     name |-> name \o [i \in 1..(8 - Len(name)) |-> 0],
     sex |-> sex, age |-> age, weight |-> weight]

S1Patient == HeaderFields(<< 84, 49 >>, << 88 >>, 1, 30, 70)
ZeroPatient == HeaderFields(<< >>, << >>, 0, 0, 0)

\* A well-formed device file: header, payload rows, 37 zero bytes of footer.
DeviceFile(ds, payload, ts) ==
    [exists |-> TRUE, hdr |-> HEADER_LEN, ts |-> ts, utf8 |-> TRUE,
     patient |-> S1Patient,
     segs |-> payload \o ZeroRun(ds, FOOTER_LEN),
     rem |-> FOOTER_LEN % RowBytes(ds)]

\* A file of nbytes zero bytes after a (possibly cut) header.
CutFile(ds, size) ==
    [exists |-> TRUE, hdr |-> Min(size, HEADER_LEN), ts |-> GoodTimestamp, utf8 |-> TRUE,
     patient |-> ZeroPatient,
     segs |-> ZeroRun(ds, size - Min(size, HEADER_LEN)),
     rem |-> (size - Min(size, HEADER_LEN)) % RowBytes(ds)]

RowA(ds) == MkRow(ds, Raw(100), Raw(40), Raw(0))
RowB(ds) == MkRow(ds, Raw(110), Raw(50), Raw(0))
RowOdd(ds) == MkRow(ds, Raw(100), Raw(41), Raw(7))
RowNeg(ds) == MkRow(ds, Raw(-1), Raw(-4), Raw(-9))
RowNullII(ds) == MkRow(ds, NULL_VALUE, Raw(40), Raw(3))
RowNullV(ds) == MkRow(ds, Raw(100), Raw(40), NULL_VALUE)
RowMax(ds) == MkRow(ds, 65535, 0, 65535)
RowOnes(ds) == MkRow(ds, 257, 257, 257)

\* Payloads of the files the model is run on.
Payloads(ds) == {
    << >>,
    << Seg(RowA(ds), 1), Seg(RowB(ds), 1) >>,
    << Seg(RowA(ds), 1), Seg(RowB(ds), 1), Seg(ZeroRow(ds), 1) >>,
    << Seg(RowOdd(ds), 1), Seg(RowNeg(ds), 2) >>,
    << Seg(RowNullII(ds), 1), Seg(RowNullV(ds), 1) >>,
    << Seg(RowMax(ds), 1) >>,
    << Seg(RowA(ds), LongRows - 1) >>,
    << Seg(RowA(ds), LongRows) >>,
    << Seg(RowB(ds), 3), Seg(ZeroRow(ds), 1), Seg(RowA(ds), LongRows) >> }

Files(ds) ==
    { DeviceFile(ds, p, GoodTimestamp) : p \in Payloads(ds) }
    \cup { DeviceFile(ds, << Seg(RowA(ds), 1) >>, BadTimestamp) }
    \* footer that is not zero
    \cup { [DeviceFile(ds, << >>, GoodTimestamp) EXCEPT
              !.segs = << Seg(RowA(ds), 1) >> \o
                       (IF FOOTER_LEN \div RowBytes(ds) > 0
                        THEN << Seg(RowOnes(ds), FOOTER_LEN \div RowBytes(ds)) >>
                        ELSE << >>)] }
    \* file one byte short of its footer
    \cup { [DeviceFile(ds, << Seg(RowA(ds), 1) >>, GoodTimestamp) EXCEPT !.rem = @ - 1] }
    \* header that is not valid UTF-8
    \cup { [DeviceFile(ds, << Seg(RowA(ds), 1) >>, GoodTimestamp) EXCEPT !.utf8 = FALSE] }
    \* files shorter than header plus footer
    \cup { CutFile(ds, HEADER_LEN + FOOTER_LEN - RowBytes(ds)), CutFile(ds, 0) }
    \* no file at all
    \cup { [DeviceFile(ds, << >>, GoodTimestamp) EXCEPT !.exists = FALSE] }

\* Number of bytes of a raw row.
RowByteLen(row) == IF row = << >> THEN 0 ELSE Len(row) * Len(row[1])

\* Number of rows, and of bytes, of a run of segments.
RECURSIVE SegRows(_)
SegRows(segs) == IF segs = << >> THEN 0 ELSE Head(segs).n + SegRows(Tail(segs))

RECURSIVE SegBytes(_)
SegBytes(segs) ==
    IF segs = << >> THEN 0
    ELSE Head(segs).n * RowByteLen(Head(segs).row) + SegBytes(Tail(segs))

\* The raw row number k (from 0) of a run of segments; k < SegRows(segs).
RECURSIVE RowAt(_, _)
RowAt(segs, k) ==
    IF k < Head(segs).n THEN Head(segs).row ELSE RowAt(Tail(segs), k - Head(segs).n)

\* os.path.getsize(filename)
FileSize(f) == f.hdr + SegBytes(f.segs) + f.rem

\* asciiz(f.read(20)) at offset 10 of the header.
HeaderTimestamp(f) == IF f.hdr >= 30 THEN f.ts ELSE IF f.hdr <= 10 THEN "" ELSE "2020-01-0"

\* f.read(n) at offset off of the header, where the field read lies.
ReadHeader(f, field, off) ==
    SubSeq(field, 1, IF f.hdr - off < 0 THEN 0 ELSE Min(Len(field), f.hdr - off))

\* asciiz(byte_str): the text before the first NUL.
RECURSIVE asciiz(_)
asciiz(byte_str) ==
    IF byte_str = << >> \/ Head(byte_str) = 0 THEN << >>
    ELSE << Head(byte_str) >> \o asciiz(Tail(byte_str))

\* Variant: every string is taken for a timestamp.
ParsesTimestamp_Always(s) == TRUE

\* datetime.strptime(s, '%Y-%m-%d %H:%M:%S') succeeds.
ParsesTimestamp(s) == s \in {GoodTimestamp, FileMtime}

----------------------------------------------------------------------------
(* ecg.__init__ *)

NewRec(ds, bits) ==
    [state |-> "new", err |-> 0, data_series |-> ds, sample_bits |-> bits,
     file_size |-> 0, payload_len |-> 0, samples |-> 0, timestamp |-> "",
     case |-> << >>, patient_name |-> << >>,
     patient_sex |-> 0, patient_age |-> 0, patient_weight |-> 0]

\* Variant: the footer is left in the length that is tested.
SizeMismatch_WithFooter(payload_len, bytes_per_sample) ==
    PyMod(payload_len + FOOTER_LEN, bytes_per_sample) # 0

\* (self.payload_len % bytes_per_sample) != 0
SizeMismatch(payload_len, bytes_per_sample) == PyMod(payload_len, bytes_per_sample) # 0

\* The recording the constructor leaves.  state tells how far it went:
\* "missing"/"badbits" (no attribute but err is set), "badsize" (filename
\* and sizes set, samples not), "badheader" and "ready" (all that readline
\* needs is set).
ConstructRec(f, ds, bits) ==
    LET new == NewRec(ds, bits)
        size == FileSize(f)
        payload == size - HEADER_LEN - FOOTER_LEN
        bytes_per_sample == ds * TruncDiv(bits, 8)
        sized == [new EXCEPT !.file_size = size, !.payload_len = payload]
        sampled == [sized EXCEPT !.samples = TruncDiv(payload, bytes_per_sample)]
        counted == [sampled EXCEPT
                       !.case = asciiz(ReadHeader(f, f.patient.case, 0)),
                       !.patient_name = asciiz(ReadHeader(f, f.patient.name, 32)),
                       !.patient_sex = FromBytesLE(ReadHeader(f, << f.patient.sex >>, 40)),
                       !.patient_age = FromBytesLE(ReadHeader(f, << f.patient.age >>, 41)),
                       !.patient_weight =
                           FromBytesLE(ReadHeader(f, << f.patient.weight >>, 42))]
    IN  IF ~f.exists
        THEN [new EXCEPT !.state = "missing", !.err = BitOr(@, FILE_MISSING)]
        ELSE IF bits % 8 # 0
        THEN [new EXCEPT !.state = "badbits", !.err = BitOr(@, 3)]
        ELSE IF SizeMismatch(payload, bytes_per_sample)
        THEN [sized EXCEPT !.state = "badsize", !.err = BitOr(@, HEADER_INVALID)]
        ELSE IF ~f.utf8
        THEN [sampled EXCEPT !.state = "badheader", !.err = BitOr(@, HEADER_INVALID)]
        ELSE IF ~ParsesTimestamp(HeaderTimestamp(f))
        THEN [counted EXCEPT !.state = "ready", !.err = BitOr(@, TIMESTAMP_BAD),
                             !.timestamp = FileMtime]
        ELSE [counted EXCEPT !.state = "ready", !.timestamp = HeaderTimestamp(f)]

----------------------------------------------------------------------------
(* ecg.readline: one row *)

\* The value of one sample: None for the out-of-scale value, else shifted.
SampleValue_ShiftFirst(value, xoffset) ==
    IF value + xoffset = NULL_VALUE THEN None ELSE value + xoffset

SampleValue(value, xoffset) == IF value = NULL_VALUE THEN None ELSE value + xoffset

\* The row list built from the samples read for one row.
DecodeRow(raw, xoffset) ==
    [i \in 1..Len(raw) |-> SampleValue(FromBytesLE(raw[i]), xoffset)]

\* Variant: the row is compared with zeros, not with the shifted zeros.
IsEndOfData_Unshifted(row, xoffset, ds) == row = [i \in 1..ds |-> 0]

\* row == [xoffset] * self.data_series
IsEndOfData(row, xoffset, ds) == row = [i \in 1..ds |-> xoffset]

\* Variant: aVF by floor division.
DerivedLeads_FloorAvf(lead_ii, lead_iii) ==
    IF lead_ii # None /\ lead_iii # None
    THEN << lead_ii - lead_iii, lead_ii, lead_iii,
            TruncDiv(lead_iii, 2) - lead_ii,
            TruncDiv(lead_ii, 2) - lead_iii,
            (lead_ii + lead_iii) \div 2 >>
    ELSE << None, lead_ii, lead_iii, None, None, None >>

\* I, II, III, aVR, aVL, aVF from lead II and lead III (Einthoven).
DerivedLeads(lead_ii, lead_iii) ==
    IF lead_ii # None /\ lead_iii # None
    THEN << lead_ii - lead_iii, lead_ii, lead_iii,
            TruncDiv(lead_iii, 2) - lead_ii,
            TruncDiv(lead_ii, 2) - lead_iii,
            TruncDiv(lead_ii + lead_iii, 2) >>
    ELSE << None, lead_ii, lead_iii, None, None, None >>

\* Variant: only four of the series after lead III are carried over.
EcgRow_FourChest(row, cols) ==
    LET ecg_row == DerivedLeads(row[1], row[2]) \o SubSeq(row, 3, Min(6, Len(row)))
    IN  SubSeq(ecg_row, 1, Min(cols, Len(ecg_row)))

\* ecg_row[0:cols]
EcgRow(row, cols) ==
    LET ecg_row == DerivedLeads(row[1], row[2]) \o SubSeq(row, 3, Len(row))
    IN  SubSeq(ecg_row, 1, Min(cols, Len(ecg_row)))

\* The error word after a short read: SHORT_READ at the read, then
\* UNEXPECTED_EOD when the incomplete row is found.
AfterShortRead(err) == BitOr(BitOr(err, SHORT_READ), UNEXPECTED_EOD)

\* Variant: the bits are assigned, not or-ed in.
AfterEndOfData_Assign(err, read_rows, samples) ==
    IF read_rows # samples THEN 12 ELSE err

\* The error word after an all-zeros row met with read_rows rows read.
AfterEndOfData(err, read_rows, samples) ==
    IF read_rows # samples THEN BitOr(err, 12) ELSE err

\* Variant: the generator begins at the second row of the payload.
ReadRow_FromSecondRow(f, ds, read_rows, xoffset, cols) ==
    IF read_rows + 1 >= SegRows(f.segs)
    THEN [kind |-> "short", row |-> << >>]
    ELSE LET row == DecodeRow(RowAt(f.segs, read_rows + 1), xoffset)
         IN  IF IsEndOfData(row, xoffset, ds) THEN [kind |-> "eod", row |-> << >>]
             ELSE IF ds < 2 THEN [kind |-> "raise", row |-> << >>]
             ELSE [kind |-> "yield", row |-> EcgRow(row, cols)]

\* What one turn of the loop of readline does with read_rows rows read so
\* far: "short" (the file ends inside the row), "eod" (all-zeros row),
\* "raise" (lead_i is unbound when data_series < 2), or "yield" and the row.
ReadRow(f, ds, read_rows, xoffset, cols) ==
    IF read_rows >= SegRows(f.segs)
    THEN [kind |-> "short", row |-> << >>]
    ELSE LET row == DecodeRow(RowAt(f.segs, read_rows), xoffset)
         IN  IF IsEndOfData(row, xoffset, ds) THEN [kind |-> "eod", row |-> << >>]
             ELSE IF ds < 2 THEN [kind |-> "raise", row |-> << >>]
             ELSE [kind |-> "yield", row |-> EcgRow(row, cols)]

(* ecg.readline: a whole pass, as the exporters make it.  A run of n equal *)
(* raw rows gives n equal turns of the loop, so the pass is computed run   *)
(* by run: rows are the yielded rows (as runs), n their number, end how    *)
(* the pass ended and err the error word it leaves.                        *)
RECURSIVE PassFrom(_, _, _, _, _, _, _)
PassFrom(segs, read_rows, ds, samples, xoffset, cols, err) ==
    IF segs = << >>
    THEN [rows |-> << >>, n |-> read_rows, end |-> "short", err |-> AfterShortRead(err)]
    ELSE IF Head(segs).n = 0
    THEN PassFrom(Tail(segs), read_rows, ds, samples, xoffset, cols, err)
    ELSE LET row == DecodeRow(Head(segs).row, xoffset)
         IN  IF IsEndOfData(row, xoffset, ds)
             THEN [rows |-> << >>, n |-> read_rows, end |-> "eod",
                   err |-> AfterEndOfData(err, read_rows, samples)]
             ELSE IF ds < 2
             THEN [rows |-> << >>, n |-> read_rows, end |-> "raise", err |-> err]
             ELSE LET rest == PassFrom(Tail(segs), read_rows + Head(segs).n,
                                       ds, samples, xoffset, cols, err)
                  IN  [rest EXCEPT !.rows = << Seg(EcgRow(row, cols), Head(segs).n) >> \o @]

FullPass(f, r, xoffset, cols) ==
    PassFrom(f.segs, 0, r.data_series, r.samples, xoffset, cols, r.err)

----------------------------------------------------------------------------
(* ecg_scp.csv_format and the lines of the CSV file *)

\* The decimal digits of m >= 0, zero-padded on the left to width digits.
RECURSIVE Digits(_, _)
Digits(m, width) ==
    IF width = 0 THEN "" ELSE Digits(m \div 10, width - 1) \o ToString(m % 10)

\* Variant: every value is written with six decimals.
Format_AlwaysFloat(num_format, whole, micro) ==
    LET neg == whole < 0 \/ micro < 0
        w == IF whole < 0 THEN -whole ELSE whole
        m == IF micro < 0 THEN -micro ELSE micro
    IN  (IF neg THEN "-" ELSE "")
        \o ToString(w + m \div 1000000) \o "." \o Digits(m % 1000000, 6)

\* num_format % (x,) for the two formats the exporter uses, where x is
\* whole + micro / 1000000 (whole and micro never of opposite signs).
Format(num_format, whole, micro) ==
    LET neg == whole < 0 \/ micro < 0
        w == IF whole < 0 THEN -whole ELSE whole
        m == IF micro < 0 THEN -micro ELSE micro
    IN  IF num_format = "%d"
        THEN ToString((IF neg THEN -1 ELSE 1) * (w + m \div 1000000))
        ELSE (IF neg THEN "-" ELSE "")
             \o ToString(w + m \div 1000000) \o "." \o Digits(m % 1000000, 6)

\* A multiplier of csv_format, in millionths: 1, and amplitude_mult =
\* float(ECG90A_AMPL_NANOVOLT) / 1000000.0.
ECG90A_AMPL_NANOVOLT == 5000
MultOne == 1000000

\* csv_format(val, none_as_empty, num_format, multiplier)
csv_format(val, none_as_empty, num_format, multiplier) ==
    IF val = None
    THEN IF none_as_empty THEN "" ELSE Format(num_format, 0, 0)
    ELSE Format(num_format, val * (multiplier \div 1000000), val * (multiplier % 1000000))

\* The exporter passes none_as_zero; a null cell is empty unless it is set.
NoneAsEmpty(none_as_zero) == ~none_as_zero

\* ','.join(...)
RECURSIVE Join(_)
Join(cells) ==
    IF cells = << >> THEN ""
    ELSE IF Len(cells) = 1 THEN cells[1]
    ELSE cells[1] \o "," \o Join(Tail(cells))

\* The line export_csv writes for one row.
CsvLine(row, as_millivolt, none_as_zero) ==
    Join([i \in 1..Len(row) |->
            IF as_millivolt
            THEN csv_format(row[i], NoneAsEmpty(none_as_zero), "%.6f", ECG90A_AMPL_NANOVOLT)
            ELSE csv_format(row[i], NoneAsEmpty(none_as_zero), "%d", MultOne)]) \o "\n"

CsvLines(rows, as_millivolt, none_as_zero) ==
    [k \in 1..Len(rows) |->
        [line |-> CsvLine(rows[k].row, as_millivolt, none_as_zero), n |-> rows[k].n]]

----------------------------------------------------------------------------
(* State of the output paths, the iterators and the call record *)

NoCsv == [exists |-> FALSE, lines |-> << >>]
OldCsv == [exists |-> TRUE, lines |-> << [line |-> "old\n", n |-> 1] >>]

NoScp == [exists |-> FALSE, old |-> FALSE, s1 |-> << >>, ending_sample |-> 0,
          bytes_to_store |-> 0, rows |-> << >>]
OldScp == [NoScp EXCEPT !.exists = TRUE, !.old = TRUE]

\* Names of the generators a client holds.
OneIter == {"a"}

NoIter == [st |-> "unused", xoffset |-> ECG90A_XOFFSET, cols |-> DEFAULT_CSV_COLUMNS,
           read_rows |-> 0, out |-> << >>, open |-> FALSE]

\* The arguments of a call of an exporter.
Args(overwrite, as_millivolt, none_as_zero, xoffset, cols) ==
    [overwrite |-> overwrite, as_millivolt |-> as_millivolt,
     none_as_zero |-> none_as_zero, xoffset |-> xoffset, cols |-> cols]

NoArgs == Args(FALSE, FALSE, FALSE, ECG90A_XOFFSET, DEFAULT_CSV_COLUMNS)

\* op: the call; ret: "None", "path", "row", "stop", "raise" or "-";
\* read: rows the call took from the device file; opened: whether it
\* opened the device file at all; args: the arguments of an exporter that
\* went past its two refusals.
CallWith(op, ret, read, opened, args) ==
    [op |-> op, ret |-> ret, read |-> read, opened |-> opened, args |-> args]

Call(op, ret, read, opened) == CallWith(op, ret, read, opened, NoArgs)

\* Variant: only the two header bits stop an export.
ErrBlocksExport_HeaderBitsOnly(err) == BitAnd(err, 3) # 0

\* if self.err != 0: ... return None
ErrBlocksExport(err) == err # 0

\* Variant: the overwrite flag is not negated.
RefusesOverwrite_NoNot(exists, overwrite) == exists /\ overwrite

\* os.path.exists(filename_out) and not overwrite
RefusesOverwrite(exists, overwrite) == exists /\ ~overwrite

----------------------------------------------------------------------------
(* ecg.export_scp: Section #3 and Section #6 *)

\* max_samples = int(0xffff / (ECG90A_SAMPLE_BITS / 8))
MaxSamples == TruncDiv(65535, ECG90A_SAMPLE_BITS \div 8)

\* bytes_to_store, before and after the 16-bit size counter limits it.
BytesToStore(samples) ==
    IF samples > MaxSamples
    THEN MaxSamples * (ECG90A_SAMPLE_BITS \div 8)
    ELSE TruncDiv(samples * ECG90A_SAMPLE_BITS, 8)

\* The first m rows of a run of segments (the lead loop breaks at m).
RECURSIVE TakeRows(_, _)
TakeRows(rows, m) ==
    IF rows = << >> \/ m <= 0 THEN << >>
    ELSE << Seg(Head(rows).row, Min(Head(rows).n, m)) >>
         \o TakeRows(Tail(rows), m - Head(rows).n)

\* val = row[i]; if val is None: val = 0
StoredValue(val) == IF val = None THEN 0 ELSE val

\* struct.pack('<h', val) accepts val.
FitsInt16(val) == val >= -32768 /\ val <= 32767

\* The rows whose samples the lead loop packs into Section #6.
StoredRows(all_rows) == TakeRows(all_rows, MaxSamples)

\* How the lead loop ends: "IndexError" when a row has no value for a lead,
\* "struct.error" when a sample does not fit, else "ok".
PackLeads(all_rows) ==
    LET stored == StoredRows(all_rows)
    IN  IF \E k \in 1..Len(stored) :
              \E i \in 1..Min(LEADS_NUMBER, Len(stored[k].row)) :
                  ~FitsInt16(StoredValue(stored[k].row[i]))
        THEN "struct.error"
        ELSE IF \E k \in 1..Len(stored) : Len(stored[k].row) < LEADS_NUMBER
        THEN "IndexError"
        ELSE "ok"

\* The samples of Section #6 as written: the stored rows, None as 0.
ScpRows(all_rows) ==
    LET stored == StoredRows(all_rows)
    IN  [k \in 1..Len(stored) |->
            Seg([i \in 1..LEADS_NUMBER |-> StoredValue(stored[k].row[i])], stored[k].n)]

----------------------------------------------------------------------------
(* ecg_scp: the fields of an SCP-ECG record *)

SCPECG_HEADER_LEN == 6
SECTION_HEADER_LEN == 16
POINTER_FIELD_LEN == 10

TAG_PATIENT_LAST_NAME == 0
TAG_PATIENT_ID == 2
TAG_PATIENT_AGE == 4
TAG_PATIENT_WEIGHT == 7
TAG_PATIENT_SEX == 8
TAG_ACQ_DEV_ID == 14
TAG_DATE_ACQ == 25
TAG_TIME_ACQ == 26
TAG_ECG_SEQ_NUM == 31
TAG_EOF == 255

SCP_SEX_UNKNOWN == 0
SCP_SEX_MALE == 1
SCP_SEX_FEMALE == 2
AGE_UNSPECIFIED == 0
AGE_YEARS == 1
WEIGHT_UNSPECIFIED == 0
WEIGHT_KILOGRAM == 1
ALL_SIMULTANEOUS_READ == 4
ENCODING_REAL == 0
BIMODAL_COMPRESSION_FALSE == 0
ECG90A_SAMPLE_RATE == 800

\* ECG90A_LEADS_SCP: the SCP-ECG lead id of each of the 12 leads.
ECG90A_LEADS_SCP == << 1, 2, 61, 62, 63, 64, 3, 4, 5, 6, 7, 8 >>

\* a ^ b, bit by bit.
RECURSIVE XorBits(_, _)
XorBits(a, b) ==
    IF a = 0 THEN b
    ELSE IF b = 0 THEN a
    ELSE ((a + b) % 2) + 2 * XorBits(a \div 2, b \div 2)

\* a ^ b for the values of four bits.
XorNibble == [a \in 0..15 |-> [b \in 0..15 |-> XorBits(a, b)]]

\* a ^ b, four bits a time.
RECURSIVE BitXor(_, _)
BitXor(a, b) ==
    IF a = 0 THEN b
    ELSE IF b = 0 THEN a
    ELSE XorNibble[a % 16][b % 16] + 16 * BitXor(a \div 16, b \div 16)

\* One entry of the table of binascii.crc_hqx: the byte i pushed through
\* eight shifts of the polynomial x^16 + x^12 + x^5 + 1.
RECURSIVE CrcShift(_, _)
CrcShift(v, n) ==
    IF n = 0 THEN v
    ELSE CrcShift(IF v >= 32768 THEN BitXor((2 * v) % 65536, 4129) ELSE 2 * v, n - 1)

crctab_hqx == [i \in 0..255 |-> CrcShift(i * 256, 8)]

\* One byte of binascii.crc_hqx:
\* crc = ((crc << 8) & 0xff00) ^ crctab_hqx[(crc >> 8) ^ byte]
crc_hqx_byte(crc, byte) ==
    BitXor((crc * 256) % 65536, crctab_hqx[BitXor(crc \div 256, byte)])

\* The bytes data[lo..hi] folded into the register, first byte first.
RECURSIVE CrcFold(_, _, _, _)
CrcFold(data, lo, hi, value) ==
    IF lo > hi THEN value
    ELSE IF lo = hi THEN crc_hqx_byte(value, data[lo])
    ELSE LET mid == (lo + hi) \div 2
             left == CrcFold(data, lo, mid, value)
         IN  IF left \in 0..65535 THEN CrcFold(data, mid + 1, hi, left) ELSE left

\* binascii.crc_hqx(data, value)
crc_hqx(data, value) == CrcFold(data, 1, Len(data), value)

Zeros(n) == [i \in 1..n |-> 0]

\* t = datetime.datetime.strptime(timestamp, ECG90A_DATETIME_FORMAT)
strptime(timestamp) ==
    IF timestamp = GoodTimestamp
    THEN [year |-> 2020, month |-> 1, day |-> 2, hour |-> 3, minute |-> 4, second |-> 5]
    ELSE [year |-> 2021, month |-> 6, day |-> 7, hour |-> 8, minute |-> 9, second |-> 10]

make_date(d) == ToBytesLE(d.year, 2) \o << d.month >> \o << d.day >>

make_time(d) == << d.hour >> \o << d.minute >> \o << d.second >>

\* u16 value || u8 unit
make_3bytes_intval_unit(value, unit) == ToBytesLE(value, 2) \o << unit >>

make_asciiz(str) == str \o << 0 >>

make_tag(tag, data) == << tag >> \o ToBytesLE(Len(data), 2) \o data

\* Variant: the index of an empty section is kept.
make_pointer_field_KeepIndex(sect, length, index) ==
    ToBytesLE(sect, 2) \o ToBytesLE(length, 4) \o ToBytesLE(index, 4)

make_pointer_field(sect, length, index) ==
    ToBytesLE(sect, 2) \o ToBytesLE(length, 4)
        \o ToBytesLE(IF length = 0 THEN 0 ELSE index, 4)

\* Variant: the name is cut to five bytes before it is padded.
make_machine_id_CutFirst(str) ==
    Zeros(8) \o SubSeq(str, 1, Min(5, Len(str))) \o << 0 >> \o Zeros(23)

make_machine_id(str) ==
    LET padded == str \o Zeros(6)
        text == SubSeq(padded, 1, 5) \o << 0 >>
    IN  Zeros(8) \o text \o Zeros(23)

\* b'SCPECG'
ScpEcgMark == << 83, 67, 80, 69, 67, 71 >>

\* Variant: the CRC is taken over the data part only.
pack_section_DataCrc(sect, data_part) ==
    LET buff == ToBytesLE(sect, 2) \o ToBytesLE(SECTION_HEADER_LEN + Len(data_part), 4)
                \o << 20 >> \o << 20 >>
                \o (IF sect = 0 THEN ScpEcgMark ELSE Zeros(6)) \o data_part
    IN  ToBytesLE(crc_hqx(data_part, 65535), 2) \o buff

pack_section(sect, data_part) ==
    LET buff == ToBytesLE(sect, 2) \o ToBytesLE(SECTION_HEADER_LEN + Len(data_part), 4)
                \o << 20 >> \o << 20 >>
                \o (IF sect = 0 THEN ScpEcgMark ELSE Zeros(6)) \o data_part
    IN  ToBytesLE(crc_hqx(buff, 65535), 2) \o buff

\* read_section_header(fp, offset) on the bytes buf: the header, or "exit"
\* when the CRC check fails.
read_section_header(buf, offset) ==
    LET read(at, n) == SubSeq(buf, offset + at + 1, Min(Len(buf), offset + at + n))
        length == FromBytesLE(read(4, 4))
        h == [crc |-> FromBytesLE(read(0, 2)),
              id |-> FromBytesLE(read(2, 2)),
              length |-> length,
              version |-> FromBytesLE(read(8, 1)),
              protocol |-> FromBytesLE(read(9, 1)),
              reserved |-> read(10, 6),
              calc_crc |-> crc_hqx(read(2, length - 2), 65535)]
    IN  IF h.crc # h.calc_crc THEN [exit |-> TRUE, h |-> h] ELSE [exit |-> FALSE, h |-> h]

----------------------------------------------------------------------------
(* ecg_scp.second_diff *)

\* second_diff(): previous_val and previous_diff1 are None; fed and out
\* are the arguments and the return values of the calls of val so far.
NewSecondDiff ==
    [previous_val |-> None, previous_diff1 |-> None, fed |-> << >>, out |-> << >>]

\* Variant: the second call adds its argument to the first value.
SecondDiffVal_FirstDiff(o, diff2) ==
    IF o.previous_val = None
    THEN [o EXCEPT !.previous_val = diff2,
                   !.fed = Append(@, diff2), !.out = Append(@, diff2)]
    ELSE IF o.previous_diff1 = None
    THEN [o EXCEPT !.previous_diff1 = diff2,
                   !.previous_val = o.previous_val + diff2,
                   !.fed = Append(@, diff2), !.out = Append(@, o.previous_val + diff2)]
    ELSE LET diff1 == o.previous_diff1 + diff2
             val == o.previous_val + diff1
         IN  [o EXCEPT !.previous_val = val, !.previous_diff1 = diff1,
                       !.fed = Append(@, diff2), !.out = Append(@, val)]

\* Variant: the first difference is not carried from call to call.
SecondDiffVal_StaleDiff(o, diff2) ==
    IF o.previous_val = None
    THEN [o EXCEPT !.previous_val = diff2,
                   !.fed = Append(@, diff2), !.out = Append(@, diff2)]
    ELSE IF o.previous_diff1 = None
    THEN [o EXCEPT !.previous_diff1 = diff2 - o.previous_val,
                   !.previous_val = diff2,
                   !.fed = Append(@, diff2), !.out = Append(@, diff2)]
    ELSE LET diff1 == o.previous_diff1 + diff2
             val == o.previous_val + diff1
         IN  [o EXCEPT !.previous_val = val,
                       !.fed = Append(@, diff2), !.out = Append(@, val)]

\* o.val(diff2): the object after the call, its return value appended to out.
SecondDiffVal(o, diff2) ==
    IF o.previous_val = None
    THEN [o EXCEPT !.previous_val = diff2,
                   !.fed = Append(@, diff2), !.out = Append(@, diff2)]
    ELSE IF o.previous_diff1 = None
    THEN [o EXCEPT !.previous_diff1 = diff2 - o.previous_val,
                   !.previous_val = diff2,
                   !.fed = Append(@, diff2), !.out = Append(@, diff2)]
    ELSE LET diff1 == o.previous_diff1 + diff2
             val == o.previous_val + diff1
         IN  [o EXCEPT !.previous_val = val, !.previous_diff1 = diff1,
                       !.fed = Append(@, diff2), !.out = Append(@, val)]

----------------------------------------------------------------------------
(* ecg_scp.huffman_decoder *)

\* The symbols of the two escapes.
Huff8bit == 511
Huff16bit == 1023

\* Variant: the table has no code for -8.
DefaultTableKeys_NoMinus8 ==
    { << 1, 0 >>, << 3, 4 >>, << 3, 5 >>, << 4, 12 >>, << 4, 13 >>, << 5, 28 >>,
      << 5, 29 >>, << 6, 60 >>, << 6, 61 >>, << 7, 124 >>, << 7, 125 >>,
      << 8, 252 >>, << 8, 253 >>, << 9, 508 >>, << 9, 509 >>, << 10, 1020 >>,
      << 10, 1022 >>, << 10, 1023 >> }

\* default_table: (size, prefix) -> symbol.
DefaultTableKeys ==
    { << 1, 0 >>, << 3, 4 >>, << 3, 5 >>, << 4, 12 >>, << 4, 13 >>, << 5, 28 >>,
      << 5, 29 >>, << 6, 60 >>, << 6, 61 >>, << 7, 124 >>, << 7, 125 >>,
      << 8, 252 >>, << 8, 253 >>, << 9, 508 >>, << 9, 509 >>, << 10, 1020 >>,
      << 10, 1021 >>, << 10, 1022 >>, << 10, 1023 >> }

default_table(key) ==
    CASE key = << 1, 0 >> -> 0
      [] key = << 3, 4 >> -> 1
      [] key = << 3, 5 >> -> -1
      [] key = << 4, 12 >> -> 2
      [] key = << 4, 13 >> -> -2
      [] key = << 5, 28 >> -> 3
      [] key = << 5, 29 >> -> -3
      [] key = << 6, 60 >> -> 4
      [] key = << 6, 61 >> -> -4
      [] key = << 7, 124 >> -> 5
      [] key = << 7, 125 >> -> -5
      [] key = << 8, 252 >> -> 6
      [] key = << 8, 253 >> -> -6
      [] key = << 9, 508 >> -> 7
      [] key = << 9, 509 >> -> -7
      [] key = << 10, 1020 >> -> 8
      [] key = << 10, 1021 >> -> -8
      [] key = << 10, 1022 >> -> Huff8bit
      [] key = << 10, 1023 >> -> Huff16bit

\* int(orig_bits_buffer, 2)
RECURSIVE BitsValue(_)
BitsValue(bits) ==
    IF bits = << >> THEN 0
    ELSE 2 * BitsValue(SubSeq(bits, 1, Len(bits) - 1)) + bits[Len(bits)]

\* Variant: the value is left unsigned.
AsSigned_Unsigned(v, width) == v

\* struct.unpack('b', struct.pack('B', v)) and the same for 'h' and 'H'.
AsSigned(v, width) == IF v >= 2 ^ (width - 1) THEN v - 2 ^ width ELSE v

\* No decoder has been started.
NoDecoder == [st |-> "none"]

\* decode(data) before its first bit: the locals of the generator, the
\* number of bits taken so far and the values yielded so far.
NewDecoder(data) ==
    [st |-> "run", data |-> data, pos |-> 0,
     huffman_prefix |-> 0, size |-> 0,
     get_orig_bits |-> 0, orig_bits_buffer |-> << >>,
     out |-> << >>, warned |-> FALSE]

\* bool(byte & m) for the bit the loops are at.
CurrentBit(h) ==
    LET byte == h.data[(h.pos \div 8) + 1]
        m == 2 ^ (7 - (h.pos % 8))
    IN  (byte \div m) % 2

\* Variant: the size of the prefix is not cleared after a value is yielded.
DecodeBit_KeepSize(h, bit) ==
    IF h.get_orig_bits > 0
    THEN LET buf == Append(h.orig_bits_buffer, bit) IN
         IF h.get_orig_bits - 1 = 0
         THEN [h EXCEPT !.get_orig_bits = 0, !.orig_bits_buffer = << >>,
                        !.huffman_prefix = 0,
                        !.out = Append(@, AsSigned(BitsValue(buf), Len(buf)))]
         ELSE [h EXCEPT !.get_orig_bits = @ - 1, !.orig_bits_buffer = buf]
    ELSE LET prefix == 2 * h.huffman_prefix + bit
             size == h.size + 1
         IN  IF << size, prefix >> \in DefaultTableKeys
             THEN LET symbol == default_table(<< size, prefix >>) IN
                  IF symbol = Huff8bit
                  THEN [h EXCEPT !.huffman_prefix = prefix, !.size = size,
                                 !.get_orig_bits = 8]
                  ELSE IF symbol = Huff16bit
                  THEN [h EXCEPT !.huffman_prefix = prefix, !.size = size,
                                 !.get_orig_bits = 16]
                  ELSE [h EXCEPT !.huffman_prefix = 0, !.size = size,
                                 !.orig_bits_buffer = << >>,
                                 !.out = Append(@, symbol)]
             ELSE [h EXCEPT !.huffman_prefix = prefix, !.size = size]

\* One turn of the inner loop of decode, for one bit of the input.
DecodeBit(h, bit) ==
    IF h.get_orig_bits > 0
    THEN LET buf == Append(h.orig_bits_buffer, bit) IN
         IF h.get_orig_bits - 1 = 0
         THEN [h EXCEPT !.get_orig_bits = 0, !.orig_bits_buffer = << >>,
                        !.huffman_prefix = 0, !.size = 0,
                        !.out = Append(@, AsSigned(BitsValue(buf), Len(buf)))]
         ELSE [h EXCEPT !.get_orig_bits = @ - 1, !.orig_bits_buffer = buf]
    ELSE LET prefix == 2 * h.huffman_prefix + bit
             size == h.size + 1
         IN  IF << size, prefix >> \in DefaultTableKeys
             THEN LET symbol == default_table(<< size, prefix >>) IN
                  IF symbol = Huff8bit
                  THEN [h EXCEPT !.huffman_prefix = prefix, !.size = size,
                                 !.get_orig_bits = 8]
                  ELSE IF symbol = Huff16bit
                  THEN [h EXCEPT !.huffman_prefix = prefix, !.size = size,
                                 !.get_orig_bits = 16]
                  ELSE [h EXCEPT !.huffman_prefix = 0, !.size = 0,
                                 !.orig_bits_buffer = << >>,
                                 !.out = Append(@, symbol)]
             ELSE [h EXCEPT !.huffman_prefix = prefix, !.size = size]

----------------------------------------------------------------------------
(* ecg_scp.pack_section and read_section_header *)

\* No section has been packed.
NoSection == [st |-> "none"]

----------------------------------------------------------------------------
(* ecg.export_scp: the sections and the record *)

\* s[1], the patient data, from the fields of the recording r.
Section1(r) ==
    LET sex_code == IF r.patient_sex = 1 THEN SCP_SEX_MALE
                    ELSE IF r.patient_sex = 0 THEN SCP_SEX_FEMALE
                    ELSE SCP_SEX_UNKNOWN
        weight_unit == IF r.patient_weight = 0 THEN WEIGHT_UNSPECIFIED ELSE WEIGHT_KILOGRAM
        age_unit == IF r.patient_age = 0 THEN AGE_UNSPECIFIED ELSE AGE_YEARS
        t == strptime(r.timestamp)
    IN  make_tag(TAG_PATIENT_ID, make_asciiz(r.patient_name))
        \o make_tag(TAG_ECG_SEQ_NUM, make_asciiz(r.case))
        \o make_tag(TAG_PATIENT_LAST_NAME, make_asciiz(r.patient_name))
        \o make_tag(TAG_PATIENT_SEX, << sex_code >>)
        \o make_tag(TAG_PATIENT_WEIGHT,
                    make_3bytes_intval_unit(r.patient_weight, weight_unit))
        \o make_tag(TAG_PATIENT_AGE, make_3bytes_intval_unit(r.patient_age, age_unit))
        \o make_tag(TAG_DATE_ACQ, make_date(t))
        \o make_tag(TAG_TIME_ACQ, make_time(t))
        \o make_tag(TAG_ACQ_DEV_ID, make_machine_id(<< 69, 67, 71, 57, 48, 65 >>))
        \o make_tag(TAG_EOF, << >>)

\* s[3], the lead definition.
RECURSIVE LeadDefinitions(_, _)
LeadDefinitions(i, ending_sample) ==
    IF i > LEADS_NUMBER THEN << >>
    ELSE ToBytesLE(1, 4) \o ToBytesLE(ending_sample, 4) \o << ECG90A_LEADS_SCP[i] >>
         \o LeadDefinitions(i + 1, ending_sample)

Section3(ending_sample) ==
    << LEADS_NUMBER >> \o << BitOr(ALL_SIMULTANEOUS_READ, LEADS_NUMBER * 8) >>
    \o LeadDefinitions(1, ending_sample)

\* The rows of a run of segments, one by one.
RECURSIVE ExpandRows(_)
ExpandRows(rows) ==
    IF rows = << >> THEN << >>
    ELSE [k \in 1..Head(rows).n |-> Head(rows).row] \o ExpandRows(Tail(rows))

\* serie: struct.pack('<h', val) for the values of lead i, row after row.
RECURSIVE Serie(_, _)
Serie(rows, i) ==
    IF rows = << >> THEN << >>
    ELSE ToBytesLE(rows[1][i] % 65536, 2) \o Serie(Tail(rows), i)

RECURSIVE Series(_, _)
Series(rows, i) ==
    IF i > LEADS_NUMBER THEN << >> ELSE Serie(rows, i) \o Series(rows, i + 1)

RECURSIVE Repeat(_, _)
Repeat(bytes, n) == IF n = 0 THEN << >> ELSE bytes \o Repeat(bytes, n - 1)

\* s[6], the rhythm data: rows are the stored rows, None already 0.
Section6(bytes_to_store, rows) ==
    ToBytesLE(ECG90A_AMPL_NANOVOLT, 2)
    \o ToBytesLE(TruncDiv(1000000, ECG90A_SAMPLE_RATE), 2)
    \o << ENCODING_REAL >> \o << BIMODAL_COMPRESSION_FALSE >>
    \o Repeat(ToBytesLE(bytes_to_store, 2), LEADS_NUMBER)
    \o Series(ExpandRows(rows), 1)

\* The length a pointer field and the record size give a section.
WithHeader(data) == IF Len(data) > 0 THEN SECTION_HEADER_LEN + Len(data) ELSE 0

\* The pointer fields of sections sect_id..11, index being the running index.
RECURSIVE PointerFields(_, _, _)
PointerFields(s, sect_id, index) ==
    IF sect_id > 11 THEN << >>
    ELSE make_pointer_field(sect_id, WithHeader(s[sect_id]), index)
         \o PointerFields(s, sect_id + 1, index + WithHeader(s[sect_id]))

\* s[0], the section pointers, from the other sections.
Section0(s) ==
    LET length == SECTION_HEADER_LEN + POINTER_FIELD_LEN * 12
        index == SCPECG_HEADER_LEN + 1
    IN  make_pointer_field(0, length, index) \o PointerFields(s, 1, index + length)

\* The sections s[0..11] of the record that scp (an scpFile) stands for.
Sections(scp) ==
    LET data == [sect_id \in 1..11 |->
                    IF sect_id = 1 THEN scp.s1
                    ELSE IF sect_id = 3 THEN Section3(scp.ending_sample)
                    ELSE IF sect_id = 6 THEN Section6(scp.bytes_to_store, scp.rows)
                    ELSE << >>]
    IN  [sect_id \in 0..11 |-> IF sect_id = 0 THEN Section0(data) ELSE data[sect_id]]

\* Variant: the record size leaves out the six bytes of the record header.
RecordSize_NoHeader(s) ==
    WithHeader(s[0]) + WithHeader(s[1]) + WithHeader(s[2]) + WithHeader(s[3])
        + WithHeader(s[6])

\* size: the record header and the sections written.
RecordSize(s) ==
    SCPECG_HEADER_LEN + WithHeader(s[0]) + WithHeader(s[1]) + WithHeader(s[2])
        + WithHeader(s[3]) + WithHeader(s[6])

PackIfAny(s, sect_id) ==
    IF Len(s[sect_id]) > 0 THEN pack_section(sect_id, s[sect_id]) ELSE << >>

\* Variant: the CRC is taken over the sections, without the size field.
ScpEcgRecord_CrcOfSections(s) ==
    LET sections == PackIfAny(s, 0) \o PackIfAny(s, 1) \o PackIfAny(s, 2)
                    \o PackIfAny(s, 3) \o PackIfAny(s, 6)
    IN  ToBytesLE(crc_hqx(sections, 65535), 2) \o ToBytesLE(RecordSize(s), 4) \o sections

\* crc + scp_ecg: the bytes written to the output file.
ScpEcgRecord(s) ==
    LET scp_ecg == ToBytesLE(RecordSize(s), 4)
                   \o PackIfAny(s, 0) \o PackIfAny(s, 1) \o PackIfAny(s, 2)
                   \o PackIfAny(s, 3) \o PackIfAny(s, 6)
    IN  ToBytesLE(crc_hqx(scp_ecg, 65535), 2) \o scp_ecg

\* The bytes of the output file scp.
ScpBytes(scp) == ScpEcgRecord(Sections(scp))

----------------------------------------------------------------------------
(* The operations *)

Init ==
    /\ \E ds \in DataSeriesSet, bits \in SampleBitsSet :
          /\ file \in Files(ds)
          /\ rec = NewRec(ds, bits)
    /\ csvFile \in {NoCsv, OldCsv}
    /\ scpFile \in {NoScp, OldScp}
    /\ its = [i \in OneIter |-> NoIter]
    /\ last = Call("none", "-", 0, FALSE)
    /\ sd = NewSecondDiff
    /\ hd = NoDecoder
    /\ sec = NoSection

\* ecg(filename, data_series=..., sample_bits=...)
Construct ==
    /\ rec.state = "new"
    /\ rec' = ConstructRec(file, rec.data_series, rec.sample_bits)
    /\ last' = Call("init", "-", 0, FALSE)
    /\ UNCHANGED << file, csvFile, scpFile, its, sd, hd, sec >>

\* readline needs self.filename, self.data_series, self.sample_bits and
\* self.samples: a client iterates a recording that has them.
CanIterate(r) == r.state \in {"badheader", "ready"}

\* it = rec.readline(xoffset, cols): a new generator, not yet started.
IterStart(i) ==
    /\ CanIterate(rec)
    /\ its[i].st \in {"unused", "done", "raised", "abandoned"}
    /\ \E xoffset \in XoffsetSet, cols \in {DEFAULT_CSV_COLUMNS} :
          its' = [its EXCEPT ![i] = [NoIter EXCEPT !.st = "created",
                                                   !.xoffset = xoffset, !.cols = cols]]
    /\ last' = Call("readline", "-", 0, FALSE)
    /\ UNCHANGED << file, rec, csvFile, scpFile, sd, hd, sec >>

\* next(it): run the generator up to its next yield, or to its end.
IterNext(i) ==
    /\ its[i].st # "unused"
    /\ its[i].read_rows < MaxStepRows
    /\ LET it == its[i]
           r == ReadRow(file, rec.data_series, it.read_rows, it.xoffset, it.cols)
       IN  CASE it.st \notin {"created", "running"} ->
                  \* a generator that has ended only raises StopIteration
                  /\ last' = Call("next", "stop", 0, FALSE)
                  /\ UNCHANGED << its, rec >>
             [] it.st \in {"created", "running"} /\ r.kind = "yield" ->
                  /\ its' = [its EXCEPT ![i] = [it EXCEPT !.st = "running", !.open = TRUE,
                                                          !.read_rows = @ + 1,
                                                          !.out = Append(@, r.row)]]
                  /\ rec' = rec
                  /\ last' = Call("next", "row", 1, it.st = "created")
             [] it.st \in {"created", "running"} /\ r.kind = "short" ->
                  /\ its' = [its EXCEPT ![i] = [it EXCEPT !.st = "done", !.open = FALSE]]
                  /\ rec' = [rec EXCEPT !.err = AfterShortRead(@)]
                  /\ last' = Call("next", "stop", 0, it.st = "created")
             [] it.st \in {"created", "running"} /\ r.kind = "eod" ->
                  /\ its' = [its EXCEPT ![i] = [it EXCEPT !.st = "done", !.open = FALSE]]
                  /\ rec' = [rec EXCEPT !.err = AfterEndOfData(@, it.read_rows, rec.samples)]
                  /\ last' = Call("next", "stop", 0, it.st = "created")
             [] it.st \in {"created", "running"} /\ r.kind = "raise" ->
                  /\ its' = [its EXCEPT ![i] = [it EXCEPT !.st = "raised", !.open = TRUE]]
                  /\ rec' = rec
                  /\ last' = Call("next", "raise", 0, it.st = "created")
    /\ UNCHANGED << file, csvFile, scpFile, sd, hd, sec >>

\* The client drops a generator it has not run to its end.
IterAbandon(i) ==
    /\ its[i].st \in {"created", "running"}
    /\ its' = [its EXCEPT ![i].st = "abandoned"]
    /\ last' = Call("abandon", "-", 0, FALSE)
    /\ UNCHANGED << file, rec, csvFile, scpFile, sd, hd, sec >>

\* rec.export_csv(overwrite, as_millivolt, none_as_zero, xoffset, cols)
ExportCsv(overwrite, as_millivolt, none_as_zero, xoffset, cols) ==
    LET args == Args(overwrite, as_millivolt, none_as_zero, xoffset, cols) IN
    /\ rec.state # "new"
    /\ IF ErrBlocksExport(rec.err)
       THEN /\ last' = Call("export_csv", "None", 0, FALSE)
            /\ UNCHANGED << rec, csvFile >>
       ELSE IF RefusesOverwrite(csvFile.exists, overwrite)
       THEN /\ rec' = [rec EXCEPT !.err = BitOr(@, OUTPUT_EXISTS)]
            /\ last' = Call("export_csv", "None", 0, FALSE)
            /\ UNCHANGED csvFile
       ELSE LET pass == FullPass(file, rec, xoffset, cols)
            IN  /\ csvFile' = [exists |-> TRUE,
                               lines |-> CsvLines(pass.rows, as_millivolt, none_as_zero)]
                /\ rec' = [rec EXCEPT !.err = pass.err]
                /\ last' = CallWith("export_csv",
                                    IF pass.end = "raise" THEN "raise" ELSE "path",
                                    pass.n, TRUE, args)
    /\ UNCHANGED << file, scpFile, its, sd, hd, sec >>

\* rec.export_scp(overwrite, xoffset)
ExportScp(overwrite, xoffset) ==
    LET args == Args(overwrite, FALSE, FALSE, xoffset, DEFAULT_CSV_COLUMNS) IN
    /\ rec.state # "new"
    /\ IF ErrBlocksExport(rec.err)
       THEN /\ last' = Call("export_scp", "None", 0, FALSE)
            /\ UNCHANGED << rec, scpFile >>
       ELSE IF RefusesOverwrite(scpFile.exists, overwrite)
       THEN /\ rec' = [rec EXCEPT !.err = BitOr(@, OUTPUT_EXISTS)]
            /\ last' = Call("export_scp", "None", 0, FALSE)
            /\ UNCHANGED scpFile
       ELSE IF rec.samples < 0
       THEN \* struct.pack('<I', ending_sample) of Section #3 fails
            /\ last' = CallWith("export_scp", "raise", 0, FALSE, args)
            /\ UNCHANGED << rec, scpFile >>
       ELSE LET truncated == [rec EXCEPT !.err = IF rec.samples > MaxSamples
                                                  THEN BitOr(@, SAMPLES_TRUNCATED) ELSE @]
                pass == FullPass(file, truncated, xoffset, DEFAULT_CSV_COLUMNS)
            IN  /\ rec' = [rec EXCEPT !.err = pass.err]
                /\ IF pass.end = "raise" \/ PackLeads(pass.rows) # "ok"
                   THEN /\ scpFile' = scpFile
                        /\ last' = CallWith("export_scp", "raise", pass.n, TRUE, args)
                   ELSE /\ scpFile' = [exists |-> TRUE, old |-> FALSE,
                                       s1 |-> Section1(rec),
                                       ending_sample |-> rec.samples,
                                       bytes_to_store |-> BytesToStore(rec.samples),
                                       rows |-> ScpRows(pass.rows)]
                        /\ last' = CallWith("export_scp", "path", pass.n, TRUE, args)
    /\ UNCHANGED << file, csvFile, its, sd, hd, sec >>

Next ==
    \/ Construct
    \/ \E i \in DOMAIN its : IterStart(i)
    \/ \E i \in DOMAIN its : IterNext(i)
    \/ \E i \in DOMAIN its : IterAbandon(i)
    \/ \E overwrite \in BOOLEAN, as_millivolt \in BOOLEAN, none_as_zero \in BOOLEAN,
          xoffset \in XoffsetSet, cols \in ColsSet :
          ExportCsv(overwrite, as_millivolt, none_as_zero, xoffset, cols)
    \/ \E overwrite \in BOOLEAN, xoffset \in XoffsetSet : ExportScp(overwrite, xoffset)

Spec == Init /\ [][Next]_vars

----------------------------------------------------------------------------
(* The second-difference reconstructor on its own *)

\* Values fed to a reconstructor, and how many.
DiffInputs == {-2, 0, 1, 3, 10}
MaxFed == 4

\* Nothing of the recording is in use.
IdleRecording ==
    /\ file = [DeviceFile(ECG90A_DATA_SERIES, << >>, GoodTimestamp) EXCEPT !.exists = FALSE]
    /\ rec = NewRec(ECG90A_DATA_SERIES, ECG90A_SAMPLE_BITS)
    /\ csvFile = NoCsv
    /\ scpFile = NoScp
    /\ its = << >>
    /\ last = Call("none", "-", 0, FALSE)

InitDiff ==
    /\ IdleRecording
    /\ sd = NewSecondDiff
    /\ hd = NoDecoder
    /\ sec = NoSection

\* o = second_diff()
DiffNew ==
    /\ sd # NewSecondDiff
    /\ sd' = NewSecondDiff
    /\ UNCHANGED << file, rec, csvFile, scpFile, its, last, hd, sec >>

\* o.val(diff2)
DiffVal(diff2) ==
    /\ Len(sd.fed) < MaxFed
    /\ sd' = SecondDiffVal(sd, diff2)
    /\ UNCHANGED << file, rec, csvFile, scpFile, its, last, hd, sec >>

NextDiff ==
    \/ DiffNew
    \/ \E diff2 \in DiffInputs : DiffVal(diff2)

SpecDiff == InitDiff /\ [][NextDiff]_vars

----------------------------------------------------------------------------
(* The Huffman decoder on its own *)

\* Bytes the inputs are made of, and how many bytes an input has at most.
\* 75, 154 are scenario S3; 255, 129, 64 are scenario S4.
HuffBytes == {0, 64, 75, 129, 154, 255}
MaxHuffBytes == 3

RECURSIVE SeqsUpTo(_, _)
SeqsUpTo(S, n) ==
    IF n = 0 THEN { << >> }
    ELSE LET shorter == SeqsUpTo(S, n - 1)
         IN  shorter \cup { Append(q, b) : q \in { x \in shorter : Len(x) = n - 1 }, b \in S }

InitHuff ==
    /\ IdleRecording
    /\ sd = NewSecondDiff
    /\ hd = NoDecoder
    /\ sec = NoSection

\* Inputs with a literal of 8 and of 16 bits whose high bit is set, a
\* literal of 16 bits that is all ones and then an unmatched prefix, and a
\* literal of 16 bits the input ends in.
HuffLiterals ==
    { << 255, 160, 0 >>, << 255, 224, 0, 64 >>, << 255, 255, 255, 255 >>,
      << 255, 224, 0 >> }

\* g = huffman_decoder().decode(data)
HuffStart ==
    /\ hd.st = "none"
    /\ \E data \in SeqsUpTo(HuffBytes, MaxHuffBytes) \cup HuffLiterals :
          hd' = NewDecoder(data)
    /\ UNCHANGED << file, rec, csvFile, scpFile, its, last, sd, sec >>

\* The generator takes one more bit of its input.
HuffBit ==
    /\ hd.st = "run"
    /\ hd.pos < 8 * Len(hd.data)
    /\ hd' = [DecodeBit(hd, CurrentBit(hd)) EXCEPT !.pos = @ + 1]
    /\ UNCHANGED << file, rec, csvFile, scpFile, its, last, sd, sec >>

\* The input is used up: the generator warns of an unmatched prefix and ends.
HuffEnd ==
    /\ hd.st = "run"
    /\ hd.pos = 8 * Len(hd.data)
    /\ hd' = [hd EXCEPT !.st = "end", !.warned = hd.size > 0]
    /\ UNCHANGED << file, rec, csvFile, scpFile, its, last, sd, sec >>

NextHuff == HuffStart \/ HuffBit \/ HuffEnd

SpecHuff == InitHuff /\ [][NextHuff]_vars

----------------------------------------------------------------------------
(* The SCP-ECG writer on short recordings *)

\* Rows of the recordings of one repeated row.
MaxScpRows == 2

\* Header fields of the recordings: scenario S1; no case, a name that
\* fills its field, female, age and weight not given; sex, age and weight
\* at the far end of their bytes.
ScpPatients == {
    S1Patient,
    HeaderFields(<< >>, << 65, 66, 67, 68, 69, 70, 71, 72 >>, 0, 0, 0),
    HeaderFields(<< 67 >>, << >>, 255, 200, 255) }

ScpPayloads ==
    { p \in Payloads(ECG90A_DATA_SERIES) : SegRows(p) <= 3 }
    \cup { << Seg(RowNeg(ECG90A_DATA_SERIES), n) >> : n \in 1..MaxScpRows }

ScpFiles ==
    { [DeviceFile(ECG90A_DATA_SERIES, p, GoodTimestamp) EXCEPT !.patient = pt] :
        p \in ScpPayloads, pt \in ScpPatients }

NoSectionHeader ==
    [crc |-> 0, id |-> 0, length |-> 0, version |-> 0, protocol |-> 0,
     reserved |-> << >>, calc_crc |-> 0]

\* What the section helpers last did.  st: "packed" (buf = pack_section(sect,
\* data)), "read" (read_section_header on buf, or on the output file when
\* from is "record", at offset: exit and h are its outcome), "machine_id"
\* (buf = make_machine_id(data)).
SectionState(st, from, sect, data, buf, offset, exit, h) ==
    [st |-> st, from |-> from, sect |-> sect, data |-> data, buf |-> buf,
     offset |-> offset, exit |-> exit, h |-> h]

\* The k-th pointer field of Section #0 of the record buf.
PointerEntry(buf, k) ==
    LET at == SCPECG_HEADER_LEN + SECTION_HEADER_LEN + POINTER_FIELD_LEN * k
    IN  [id |-> FromBytesLE(SubSeq(buf, at + 1, at + 2)),
         length |-> FromBytesLE(SubSeq(buf, at + 3, at + 6)),
         index |-> FromBytesLE(SubSeq(buf, at + 7, at + 10))]

\* export_scp has left a record in the output file.
ScpRecordOnDisk == scpFile.exists /\ ~scpFile.old

InitScp ==
    /\ file \in ScpFiles
    /\ rec = NewRec(ECG90A_DATA_SERIES, ECG90A_SAMPLE_BITS)
    /\ csvFile = NoCsv
    /\ scpFile \in {NoScp, OldScp}
    /\ its = << >>
    /\ last = Call("none", "-", 0, FALSE)
    /\ sd = NewSecondDiff
    /\ hd = NoDecoder
    /\ sec = NoSection

\* h = read_section_header(fp, index - 1), fp being the output file and
\* index the one a pointer of its Section #0 declares.
ReadRecordSection ==
    /\ ScpRecordOnDisk
    /\ \E buf \in { ScpBytes(scpFile) }, k \in 0..11 :
          \E ptr \in { PointerEntry(buf, k) } :
             /\ ptr.length > 0
             /\ \E r \in { read_section_header(buf, ptr.index - 1) } :
                   sec' = SectionState("read", "record", ptr.id, Sections(scpFile)[k],
                                       << >>, ptr.index - 1, r.exit, r.h)
    /\ UNCHANGED << file, rec, csvFile, scpFile, its, last, sd, hd >>

NextScp ==
    \/ Construct
    \/ \E overwrite \in BOOLEAN, xoffset \in XoffsetSet : ExportScp(overwrite, xoffset)
    \/ ReadRecordSection

SpecScp == InitScp /\ [][NextScp]_vars

----------------------------------------------------------------------------
(* The section helpers, and the sections of a record read back *)

\* Bytes the payloads are made of, and how many bytes a payload has at most.
MaxDataLen == 2

\* Section ids and payloads pack_section is called with.
PackSects == {0, 1, 6, 11}
PackData == SeqsUpTo({7, 255}, MaxDataLen)

\* Bytes a model name has at most.
MaxNameLen == 6

\* Model names make_machine_id is called with: the first bytes of "ECG90AB".
ModelNames == { SubSeq(<< 69, 67, 71, 57, 48, 65, 66 >>, 1, n) : n \in 0..Min(MaxNameLen, 7) }

\* The recordings whose records are read back: scenario S1, and an empty
\* recording of a patient with no case.
SectFiles ==
    { DeviceFile(ECG90A_DATA_SERIES,
                 << Seg(RowA(ECG90A_DATA_SERIES), 1), Seg(RowB(ECG90A_DATA_SERIES), 1),
                    Seg(ZeroRow(ECG90A_DATA_SERIES), 1) >>, GoodTimestamp),
      [DeviceFile(ECG90A_DATA_SERIES, << >>, GoodTimestamp) EXCEPT
          !.patient = HeaderFields(<< >>, << 65, 66, 67, 68, 69, 70, 71, 72 >>, 0, 0, 0)] }

InitSect ==
    /\ file \in SectFiles
    /\ rec = NewRec(ECG90A_DATA_SERIES, ECG90A_SAMPLE_BITS)
    /\ csvFile = NoCsv
    /\ scpFile = NoScp
    /\ its = << >>
    /\ last = Call("none", "-", 0, FALSE)
    /\ sd = NewSecondDiff
    /\ hd = NoDecoder
    /\ sec = NoSection

\* buf = pack_section(sect, data)
PackSection(sect, data) ==
    /\ sec' = SectionState("packed", "pack", sect, data, pack_section(sect, data),
                           0, FALSE, NoSectionHeader)
    /\ UNCHANGED << file, rec, csvFile, scpFile, its, last, sd, hd >>

\* h = read_section_header(fp, 0), fp holding the section last packed.
ReadPacked ==
    /\ sec.st = "packed"
    /\ LET r == read_section_header(sec.buf, 0)
       IN  sec' = [sec EXCEPT !.st = "read", !.exit = r.exit, !.h = r.h]
    /\ UNCHANGED << file, rec, csvFile, scpFile, its, last, sd, hd >>

\* make_machine_id(str)
MakeMachineId(str) ==
    /\ sec' = SectionState("machine_id", "pack", 0, str, make_machine_id(str),
                           0, FALSE, NoSectionHeader)
    /\ UNCHANGED << file, rec, csvFile, scpFile, its, last, sd, hd >>

NextSect ==
    \/ Construct
    \/ \E overwrite \in BOOLEAN, xoffset \in XoffsetSet : ExportScp(overwrite, xoffset)
    \/ ReadRecordSection
    \/ \E sect \in PackSects, data \in PackData : PackSection(sect, data)
    \/ ReadPacked
    \/ \E str \in ModelNames : MakeMachineId(str)

SpecSect == InitSect /\ [][NextSect]_vars

----------------------------------------------------------------------------
(* Two row iterators over one recording *)

\* Names of the two generators.
TwoIters == {"a", "b"}

\* The recordings the two generators run over: the files whose rows can
\* be stepped through one by one to the end of the pass (with one series
\* a pass ends at its first row).
TwoFiles(ds) ==
    IF ds < 2 THEN Files(ds) ELSE { f \in Files(ds) : SegRows(f.segs) < MaxStepRows }

InitTwo ==
    /\ \E ds \in {1, ECG90A_DATA_SERIES} :
          /\ file \in TwoFiles(ds)
          /\ rec = NewRec(ds, ECG90A_SAMPLE_BITS)
    /\ csvFile = NoCsv
    /\ scpFile = NoScp
    /\ its = [i \in TwoIters |-> NoIter]
    /\ last = Call("none", "-", 0, FALSE)
    /\ sd = NewSecondDiff
    /\ hd = NoDecoder
    /\ sec = NoSection

NextTwo ==
    \/ Construct
    \/ \E i \in DOMAIN its : IterStart(i)
    \/ \E i \in DOMAIN its : IterNext(i)
    \/ \E i \in DOMAIN its : IterAbandon(i)

SpecTwo == InitTwo /\ [][NextTwo]_vars

----------------------------------------------------------------------------
(* Properties *)

IsExport(c) == c.op \in {"export_csv", "export_scp"}

\* The output paths hold what they held before any export ran.
OutputsUntouched == csvFile \in {NoCsv, OldCsv} /\ scpFile \in {NoScp, OldScp}

\* C1: an export_csv or export_scp called while the error word is not zero
\* returns None, leaves both output paths as they are, does not open the
\* device file and reads no row, whatever set the bits.
C1_NonZeroErrRefusesExport ==
    [][ (IsExport(last') /\ rec.err # 0) =>
            /\ last'.ret = "None"
            /\ csvFile' = csvFile /\ scpFile' = scpFile
            /\ last'.read = 0 /\ ~last'.opened
            /\ its' = its ]_vars

\* C1 witness: export_csv has just refused on a recording whose error word
\* holds SAMPLES_TRUNCATED (set by an earlier export_scp) and UNEXPECTED_EOD.
C1_Witness ==
    /\ last.op = "export_csv" /\ last.ret = "None"
    /\ HasBit(rec.err, SAMPLES_TRUNCATED) /\ HasBit(rec.err, UNEXPECTED_EOD)
    /\ scpFile.exists /\ ~scpFile.old

\* C2: no step clears a bit of the error word: the word after a step holds
\* every bit it held before.
C2_ErrCumulative == [][ BitAnd(rec'.err, rec.err) = rec.err ]_vars

\* C2 witness: bits of three different operations are set together
\* (constructor, refused export, row iteration).
C2_Witness ==
    /\ HasBit(rec.err, OUTPUT_EXISTS)
    /\ HasBit(rec.err, SHORT_READ)
    /\ its["a"].st = "done"

\* The payload length of the file is not a multiple of the row length.
PayloadNotDivisible ==
    /\ file.exists
    /\ PyMod(FileSize(file) - HEADER_LEN - FOOTER_LEN,
             rec.data_series * (rec.sample_bits \div 8)) # 0

\* C3: once a recording is constructed on an existing file whose payload
\* length is not a multiple of data_series * sample_bits / 8, HEADER_INVALID
\* is set, every export returns None and no output is ever written.
C3_SizeMismatchRefuses ==
    (PayloadNotDivisible /\ rec.state # "new") =>
        /\ HasBit(rec.err, HEADER_INVALID)
        /\ IsExport(last) => last.ret = "None" /\ ~last.opened
        /\ OutputsUntouched

\* C3 witness: export_scp was refused on such a recording of 16-bit samples.
C3_Witness ==
    /\ PayloadNotDivisible /\ rec.sample_bits = ECG90A_SAMPLE_BITS
    /\ rec.err = HEADER_INVALID
    /\ last.op = "export_scp" /\ last.ret = "None"

\* The file is a header, payload rows none of which is all zeros, and a
\* footer of 37 zero bytes.
WellFormedFile ==
    /\ file.exists /\ file.hdr = HEADER_LEN /\ file.utf8
    /\ file.rem = FOOTER_LEN % RowBytes(rec.data_series)
    /\ \E p \in Payloads(rec.data_series) :
          /\ file.segs = p \o ZeroRun(rec.data_series, FOOTER_LEN)
          /\ \A k \in 1..Len(p) : p[k].row # ZeroRow(rec.data_series)

\* (file_size - 80) / (data_series * 2)
ExpectedRows == (FileSize(file) - 80) \div (rec.data_series * 2)

\* C4: on a recording constructed with err = 0 from a well-formed file, a
\* full pass of the row iterator (the one export_csv makes, or a generator
\* run to its end) yields (file_size - 80) / (data_series * 2) rows, raises
\* nothing and leaves err = 0; a file of 80 bytes gives an empty CSV file.
C4_FullPassYieldsAllRows ==
    [][ (WellFormedFile /\ rec.state = "ready" /\ rec.err = 0) =>
            /\ (last'.op = "export_csv" /\ last'.opened) =>
                  /\ last'.ret = "path"
                  /\ last'.read = ExpectedRows
                  /\ rec'.err = 0
                  /\ FileSize(file) = 80 => csvFile' = [exists |-> TRUE, lines |-> << >>]
            /\ \A i \in DOMAIN its :
                  (its[i].st \in {"created", "running"} /\ its'[i].st \in {"done", "raised"}) =>
                      /\ its'[i].st = "done"
                      /\ its'[i].read_rows = ExpectedRows
                      /\ rec'.err = 0 ]_vars

\* The rows the generators have yielded so far.
YieldedRows == UNION { { its[i].out[k] : k \in 1..Len(its[i].out) } : i \in DOMAIN its }

\* Rows with all six limb leads and both II and III present.
LimbRows == { row \in YieldedRows : Len(row) >= 6 /\ row[2] # None /\ row[3] # None }

\* C5 as stated: for every yielded row with II and III non-null,
\* I + III = II and 2*aVF = II + III.
C5_EinthovenExact ==
    \A row \in LimbRows : row[1] + row[3] = row[2] /\ 2 * row[6] = row[2] + row[3]

\* C5 amended: I + III = II always; 2*aVF = II + III when II + III is even,
\* and 2*aVF is II + III moved one unit toward zero when it is odd.
C5_EinthovenTruncated ==
    \A row \in LimbRows :
        LET sum == row[2] + row[3] IN
        /\ row[1] + row[3] = row[2]
        /\ sum % 2 = 0 => 2 * row[6] = sum
        /\ (sum % 2 = 1 /\ sum > 0) => 2 * row[6] = sum - 1
        /\ (sum % 2 = 1 /\ sum < 0) => 2 * row[6] = sum + 1

C5_Witness ==
    /\ \E row \in LimbRows : (row[2] + row[3]) % 2 = 1 /\ row[2] + row[3] < 0
    /\ \E row \in LimbRows : (row[2] + row[3]) % 2 = 1 /\ row[2] + row[3] > 0

\* The device file of scenario S1, read as an 8-series recording.
S1Payload ==
    << Seg(RowA(ECG90A_DATA_SERIES), 1), Seg(RowB(ECG90A_DATA_SERIES), 1),
       Seg(ZeroRow(ECG90A_DATA_SERIES), 1) >>

\* export_csv in integer mode with cols = 6 has just written scenario S1.
S1Exported ==
    /\ file = DeviceFile(ECG90A_DATA_SERIES, S1Payload, GoodTimestamp)
    /\ rec.data_series = ECG90A_DATA_SERIES
    /\ last.op = "export_csv" /\ last.ret = "path"
    /\ ~last.args.as_millivolt /\ last.args.cols = 6

\* C6 as stated: scenario S1 exported in integer mode with cols = 6 gives
\* the lines 60,100,40,-30,10,70 and 70,110,50,-35,15,80.
C6_S1LinesAsStated ==
    S1Exported =>
        csvFile.lines = << [line |-> "60,100,40,-30,10,70\n", n |-> 1],
                           [line |-> "70,110,50,-35,15,80\n", n |-> 1] >>

\* C6 amended: scenario S1 exported in integer mode with cols = 6 gives
\* exactly the lines 60,100,40,-80,10,70 and 60,110,50,-85,5,80.
C6_S1Lines ==
    S1Exported =>
        /\ csvFile.exists
        /\ csvFile.lines = << [line |-> "60,100,40,-80,10,70\n", n |-> 1],
                              [line |-> "60,110,50,-85,5,80\n", n |-> 1] >>

C6_Witness == S1Exported /\ last.read = 2 /\ Len(csvFile.lines) = 2

\* The raw value of series j (from 1) of the raw row behind the k-th row
\* (from 1) that a generator yielded.
RawValue(k, j) == FromBytesLE(RowAt(file.segs, k - 1)[j])

\* Position in a yielded row of series j of the raw row: II, III, then the
\* series after them from column 7 on.
ColumnOf(j) == IF j <= 2 THEN j + 1 ELSE j + 4

\* The device file with a null lead II in its first row and null chest
\* series in its second, read as an 8-series recording and exported.
NullPayload ==
    << Seg(RowNullII(ECG90A_DATA_SERIES), 1), Seg(RowNullV(ECG90A_DATA_SERIES), 1) >>

NullExported ==
    /\ file = DeviceFile(ECG90A_DATA_SERIES, NullPayload, GoodTimestamp)
    /\ rec.data_series = ECG90A_DATA_SERIES
    /\ last.op = "export_csv" /\ last.ret = "path"

\* The text of a null cell, of 40 and of 3 under the arguments of the export.
NullCell ==
    IF ~last.args.none_as_zero THEN ""
    ELSE IF last.args.as_millivolt THEN "0.000000" ELSE "0"

Cell40 == IF last.args.as_millivolt THEN "0.200000" ELSE "40"
Cell3 == IF last.args.as_millivolt THEN "0.015000" ELSE "3"

LimbCells ==
    IF last.args.as_millivolt
    THEN "0.300000,0.500000,0.200000,-0.400000,0.050000,0.350000"
    ELSE "60,100,40,-80,10,70"

\* C7: a raw sample of 0x6800 is yielded as null and any other raw value
\* shifted by -2048; a row with II or III null has I, aVR, aVL and aVF null;
\* export_csv writes a null cell as an empty field, or as 0 (0.000000 in
\* millivolt mode) when none_as_zero is set.
C7_NullSamples ==
    /\ \A i \in DOMAIN its : \A k \in 1..Len(its[i].out) :
          LET row == its[i].out[k] IN
          /\ \A j \in 1..rec.data_series :
                ColumnOf(j) <= Len(row) =>
                    row[ColumnOf(j)] = IF RawValue(k, j) = 26624 THEN None
                                       ELSE RawValue(k, j) - 2048
          /\ (row[2] = None \/ row[3] = None) =>
                row[1] = None /\ row[4] = None /\ row[5] = None /\ row[6] = None
    /\ NullExported =>
          csvFile.lines =
             IF last.args.cols = 6
             THEN << [line |-> NullCell \o "," \o NullCell \o "," \o Cell40 \o ","
                               \o NullCell \o "," \o NullCell \o "," \o NullCell \o "\n",
                      n |-> 1],
                     [line |-> LimbCells \o "\n", n |-> 1] >>
             ELSE << [line |-> NullCell \o "," \o NullCell \o "," \o Cell40 \o ","
                               \o NullCell \o "," \o NullCell \o "," \o NullCell \o ","
                               \o Cell3 \o "," \o Cell3 \o "," \o Cell3 \o ","
                               \o Cell3 \o "," \o Cell3 \o "," \o Cell3 \o "\n",
                      n |-> 1],
                     [line |-> LimbCells \o "," \o NullCell \o "," \o NullCell \o ","
                               \o NullCell \o "," \o NullCell \o "," \o NullCell \o ","
                               \o NullCell \o "\n",
                      n |-> 1] >>

C7_Witness ==
    /\ NullExported /\ last.args.none_as_zero /\ last.args.as_millivolt
    /\ Len(its["a"].out) = 2
    /\ its["a"].out[1][2] = None /\ its["a"].out[1][6] = None
    /\ its["a"].out[2][7] = None /\ its["a"].out[2][6] = 70

\* C8 as stated: for the 8-series device a yielded row has only 10 values,
\* fewer than the 12 asked for.
C8_TenValues ==
    rec.data_series = ECG90A_DATA_SERIES =>
        \A row \in YieldedRows : Len(row) = 10 /\ Len(row) < DEFAULT_CSV_COLUMNS

\* C8 amended: for the 8-series device a row yielded with cols = 12 has 12
\* values: the six limb leads and, in columns 7 to 12, series 3 to 8 of the
\* raw row.
C8_TwelveValues ==
    rec.data_series = ECG90A_DATA_SERIES =>
        \A i \in DOMAIN its : \A k \in 1..Len(its[i].out) :
            /\ its[i].cols = DEFAULT_CSV_COLUMNS
            /\ Len(its[i].out[k]) = DEFAULT_CSV_COLUMNS
            /\ \A j \in 3..ECG90A_DATA_SERIES :
                  (its[i].out[k][j + 4] = None) = (RawValue(k, j) = NULL_VALUE)

C8_Witness ==
    /\ rec.data_series = ECG90A_DATA_SERIES
    /\ Len(its["a"].out) = 2
    /\ its["a"].out[1][11] = 7 /\ its["a"].out[1][12] = 7
    /\ its["a"].out[2][12] = -9

\* Generator i is live and this step runs it.
NextRuns(i) ==
    /\ its[i].st \in {"created", "running"}
    /\ last'.op = "next"
    /\ its'[i] # its[i]

\* The next read of generator i finds fewer bytes than a row needs.
AtShortRead(i) == its[i].read_rows >= SegRows(file.segs)

\* The next row generator i reads is all zeros.
AtZeroRow(i) ==
    /\ its[i].read_rows < SegRows(file.segs)
    /\ RowAt(file.segs, its[i].read_rows) = ZeroRow(rec.data_series)

\* The generator ends normally and hands out nothing.
EndsQuietly(i) ==
    /\ its'[i].st = "done"
    /\ its'[i].out = its[i].out
    /\ last'.ret = "stop"

ScpWritten == last.op = "export_scp" /\ last.ret = "path"

\* C10: when total_samples > 32767 export_scp stores exactly 32767 samples
\* per lead, declares 65534 bytes for every lead and sets SAMPLES_TRUNCATED;
\* when total_samples <= 32767 the bit is not set.
C10_TruncatesTo32767 ==
    ScpWritten =>
        IF rec.samples > 32767
        THEN /\ SegRows(scpFile.rows) = 32767
             /\ scpFile.bytes_to_store = 65534
             /\ HasBit(rec.err, SAMPLES_TRUNCATED)
        ELSE ~HasBit(rec.err, SAMPLES_TRUNCATED)

\* C18 as stated: a fresh reconstructor fed 10, 3, 1, -2 returns
\* 10, 13, 9, 3.
C18_S5AsStated == sd.fed = << 10, 3, 1, -2 >> => sd.out = << 10, 13, 9, 3 >>

\* C18 amended: a fresh reconstructor fed 10, 3, 1, -2 returns
\* 10, 3, -3, -11.
C18_S5 == sd.fed = << 10, 3, 1, -2 >> => sd.out = << 10, 3, -3, -11 >>

C18_Witness ==
    /\ sd.fed = << 10, 3, 1, -2 >>
    /\ sd.previous_val = -11 /\ sd.previous_diff1 = -8

\* The stream that encodes the samples x: x0, x1, then the second
\* differences x_k - 2*x_(k-1) + x_(k-2).
SecondDiffStream(x) ==
    [k \in 1..Len(x) |-> IF k <= 2 THEN x[k] ELSE x[k] - 2 * x[k - 1] + x[k - 2]]

\* C19: whatever stream a fresh reconstructor is fed, the values it returns
\* are the samples that stream encodes: the stream is the first two
\* samples followed by the second differences of the values returned.
C19_SecondDiffRoundTrip ==
    /\ Len(sd.out) = Len(sd.fed)
    /\ SecondDiffStream(sd.out) = sd.fed

C19_Witness ==
    /\ sd.out = << 3, 10, 17, 22 >>
    /\ sd.fed = << 3, 10, 0, -2 >>

\* C16: a record written for total_samples <= 32767 holds, for each lead,
\* total_samples * 2 bytes of samples, the byte count declared for the lead.
C16_LeadBlocksAsDeclared ==
    (ScpWritten /\ rec.samples <= 32767) =>
        /\ 2 * SegRows(scpFile.rows) = rec.samples * 2
        /\ scpFile.bytes_to_store = 2 * SegRows(scpFile.rows)
        /\ \A k \in 1..Len(scpFile.rows) : Len(scpFile.rows[k].row) = LEADS_NUMBER

\* This step is export_csv, or export_scp, called with overwrite = False.
CsvNoOverwrite ==
    \E am \in BOOLEAN, nz \in BOOLEAN, x \in XoffsetSet, c \in ColsSet :
        ExportCsv(FALSE, am, nz, x, c)

ScpNoOverwrite == \E x \in XoffsetSet : ExportScp(FALSE, x)

\* The step sets OUTPUT_EXISTS, returns None and changes nothing else.
OnlyOutputExistsSet ==
    /\ rec' = [rec EXCEPT !.err = BitOr(@, OUTPUT_EXISTS)]
    /\ HasBit(rec'.err, OUTPUT_EXISTS)
    /\ last'.ret = "None" /\ last'.read = 0 /\ ~last'.opened
    /\ csvFile' = csvFile /\ scpFile' = scpFile /\ its' = its /\ file' = file

\* C20 as stated: whenever the output path exists and overwrite is false,
\* the exporter sets OUTPUT_EXISTS, returns nothing and changes nothing else.
C20_RefusesAsStated ==
    [][ /\ (csvFile.exists /\ CsvNoOverwrite) => OnlyOutputExistsSet
        /\ (scpFile.exists /\ ScpNoOverwrite) => OnlyOutputExistsSet ]_vars

\* C20 amended: the same, for an exporter entered with err = 0.
C20_RefusesOverwrite ==
    [][ /\ (rec.err = 0 /\ csvFile.exists /\ CsvNoOverwrite) => OnlyOutputExistsSet
        /\ (rec.err = 0 /\ scpFile.exists /\ ScpNoOverwrite) => OnlyOutputExistsSet ]_vars

C20_Witness ==
    /\ last.op = "export_scp" /\ last.ret = "None"
    /\ rec.err = OUTPUT_EXISTS /\ rec.state = "ready"
    /\ scpFile = OldScp /\ csvFile.exists /\ ~(csvFile = OldCsv)

\* The decoder has run through the two bytes of scenario S3,
\* 0 100 101 1 | 100 1101 0.
S3Decoded == hd.st = "end" /\ hd.data = << 75, 154 >>

\* C17 as stated: scenario S3 decodes to exactly 0, 1, -1, 2, -2.
C17_S3AsStated == S3Decoded => hd.out = << 0, 1, -1, 2, -2 >>

\* C17 amended: scenario S3 decodes to 0, 1, -1, 2, -2 followed by one more
\* 0, the value the padding bit stands for.
C17_S3 == S3Decoded => hd.out = << 0, 1, -1, 2, -2, 0 >> /\ ~hd.warned

C17_Witness == S3Decoded /\ Len(hd.out) = 6 /\ hd.pos = 16

----------------------------------------------------------------------------
(* The record export_scp writes, byte by byte *)

\* CRC-CCITT of one more byte, bit by bit: polynomial 0x1021, the high bit
\* first, nothing reflected.
CcittByte(crc, byte) == CrcShift(BitXor(crc, byte * 256), 8)

RECURSIVE CcittFold(_, _, _, _)
CcittFold(data, lo, hi, value) ==
    IF lo > hi THEN value
    ELSE IF lo = hi THEN CcittByte(value, data[lo])
    ELSE LET mid == (lo + hi) \div 2
             left == CcittFold(data, lo, mid, value)
         IN  IF left \in 0..65535 THEN CcittFold(data, mid + 1, hi, left) ELSE left

\* The sections that lie in buf from the byte after offset at on, each by
\* the id and the length of its own header; id -1 marks bytes that are no
\* section.
RECURSIVE WalkSections(_, _)
WalkSections(buf, at) ==
    IF at >= Len(buf) THEN << >>
    ELSE LET id == FromBytesLE(SubSeq(buf, at + 3, at + 4))
             length == FromBytesLE(SubSeq(buf, at + 5, at + 8))
         IN  IF length < SECTION_HEADER_LEN \/ at + length > Len(buf)
             THEN << [id |-> -1, length |-> 0, at |-> at] >>
             ELSE << [id |-> id, length |-> length, at |-> at] >>
                  \o WalkSections(buf, at + length)

\* The record of scenario S1 has just been written.
S1Written ==
    /\ ScpWritten
    /\ file = DeviceFile(ECG90A_DATA_SERIES, S1Payload, GoodTimestamp)

\* C11: the record export_scp emits is u16 record_crc, u32 record_size and
\* then the non-empty sections in ascending section id, each with its
\* payload; record_crc is the CRC-CCITT (0x1021, initial value 0xFFFF, not
\* reflected, no final XOR) of every byte after the CRC field.
C11_RecordLayout ==
    ScpRecordOnDisk =>
        \A buf \in { ScpBytes(scpFile) }, s \in { Sections(scpFile) } :
           \A w \in { WalkSections(buf, SCPECG_HEADER_LEN) } :
              /\ Len(buf) >= SCPECG_HEADER_LEN
              /\ FromBytesLE(SubSeq(buf, 1, 2)) = CcittFold(buf, 3, Len(buf), 65535)
              /\ { w[j].id : j \in 1..Len(w) } = { k \in 0..11 : Len(s[k]) > 0 }
              /\ \A j \in 1..(Len(w) - 1) : w[j].id < w[j + 1].id
              /\ \A j \in 1..Len(w) :
                    /\ w[j].length = SECTION_HEADER_LEN + Len(s[w[j].id])
                    /\ SubSeq(buf, w[j].at + SECTION_HEADER_LEN + 1, w[j].at + w[j].length)
                           = s[w[j].id]

\* The record of scenario S1 begins with the CRC 0xC091 and the size 466.
C11_Witness ==
    /\ S1Written
    /\ SubSeq(ScpBytes(scpFile), 1, 6) = << 145, 192, 210, 1, 0, 0 >>

\* C12 as stated: record_size is the number of bytes from its own first
\* byte to the end of the last section, the two CRC bytes not counted.
C12_RecordSizeAsStated ==
    ScpRecordOnDisk =>
        \A buf \in { ScpBytes(scpFile) } : FromBytesLE(SubSeq(buf, 3, 6)) = Len(buf) - 2

\* C12: record_size is the number of bytes of the whole record, the two CRC
\* bytes counted: 6 and, for every section written, 16 and its payload.
C12_RecordSizeIsTotal ==
    ScpRecordOnDisk =>
        \A buf \in { ScpBytes(scpFile) }, s \in { Sections(scpFile) } :
           /\ FromBytesLE(SubSeq(buf, 3, 6)) = Len(buf)
           /\ FromBytesLE(SubSeq(buf, 3, 6))
                  = 6 + 16 * Cardinality({ k \in 0..11 : Len(s[k]) > 0 })
                      + Len(s[0]) + Len(s[1]) + Len(s[2]) + Len(s[3]) + Len(s[6])

C12_Witness ==
    /\ S1Written
    /\ \E buf \in { ScpBytes(scpFile) } :
          Len(buf) = 466 /\ FromBytesLE(SubSeq(buf, 3, 6)) = 466

\* C13: read_section_header on what pack_section made, and on every section
\* of a written record at the offset its pointer declares, returns the id
\* and a length of 16 and the payload length, and the CRC it computes over
\* the length - 2 bytes after the CRC field is the stored one: it does not
\* exit.
C13_SectionRoundTrip ==
    sec.st = "read" =>
        /\ ~sec.exit
        /\ sec.h.id = sec.sect
        /\ sec.h.length = 16 + Len(sec.data)
        /\ sec.h.calc_crc = sec.h.crc
        /\ sec.from = "pack" => sec.h.crc = CcittFold(sec.buf, 3, Len(sec.buf), 65535)

\* Section #6 of the record of scenario S1 (78 bytes of payload) read back.
C13_Witness ==
    /\ sec.st = "read" /\ sec.from = "record" /\ ~sec.exit
    /\ sec.h.id = 6 /\ sec.h.length = 94 /\ sec.offset = 372
    /\ file = DeviceFile(ECG90A_DATA_SERIES, S1Payload, GoodTimestamp)

\* C14: Section #0 of every record holds 12 pointer entries, for ids 0..11;
\* an entry of length 0 has index 0; any other entry has length 16 and the
\* payload length and its index is the 1-based offset where that section
\* begins in the record; entry 0 is (136, 7), section 1 is at 143, section 3
\* at 143 + 16 + len(s1), section 6 at that + 16 + len(s3).
C14_PointerTable ==
    ScpRecordOnDisk =>
        \A buf \in { ScpBytes(scpFile) }, s \in { Sections(scpFile) } :
           \A w \in { WalkSections(buf, SCPECG_HEADER_LEN) } :
              LET e == [k \in 0..11 |-> PointerEntry(buf, k)]
              IN  /\ FromBytesLE(SubSeq(buf, 11, 14)) = 16 + 12 * 10
                  /\ \A k \in 0..11 :
                        /\ e[k].id = k
                        /\ e[k].length = 0 => e[k].index = 0
                        /\ e[k].length = 0 <=> Len(s[k]) = 0
                        /\ e[k].length # 0 =>
                              /\ e[k].length = 16 + Len(s[k])
                              /\ \E j \in 1..Len(w) :
                                    w[j].id = k /\ w[j].at + 1 = e[k].index
                  /\ e[0].length = 136 /\ e[0].index = 7
                  /\ e[1].index = 143
                  /\ e[3].index = 143 + 16 + Len(s[1])
                  /\ e[6].index = e[3].index + 16 + Len(s[3])

\* Scenario S1: sections 1, 3 and 6 at 143, 247 and 373, section 2 empty.
C14_Witness ==
    /\ S1Written
    /\ \E buf \in { ScpBytes(scpFile) } :
          /\ PointerEntry(buf, 1) = [id |-> 1, length |-> 104, index |-> 143]
          /\ PointerEntry(buf, 2) = [id |-> 2, length |-> 0, index |-> 0]
          /\ PointerEntry(buf, 3) = [id |-> 3, length |-> 126, index |-> 247]
          /\ PointerEntry(buf, 6) = [id |-> 6, length |-> 94, index |-> 373]

\* The values of the tags tag in the tag list data, from offset at on.
RECURSIVE TagData(_, _, _)
TagData(data, at, tag) ==
    IF at + 3 > Len(data) THEN << >>
    ELSE LET n == FromBytesLE(SubSeq(data, at + 2, at + 3))
             rest == TagData(data, at + 3 + n, tag)
         IN  IF data[at + 1] = tag
             THEN << SubSeq(data, at + 4, at + 3 + n) >> \o rest
             ELSE rest

\* The first five bytes of a name, NULs where the name has none.
FirstFive(str) == [i \in 1..5 |-> IF i <= Len(str) THEN str[i] ELSE 0]

\* C15 as stated: the machine id is a block of 38 bytes: 8 zero bytes, the
\* first 5 bytes of the model name and a NUL, 23 zero bytes.
C15_MachineIdAsStated ==
    sec.st = "machine_id" =>
        /\ Len(sec.buf) = 38
        /\ sec.buf = Zeros(8) \o SubSeq(sec.data, 1, Min(5, Len(sec.data))) \o << 0 >>
                     \o Zeros(23)

\* C15: the machine id is a block of 37 bytes: 8 zero bytes, the first 5
\* bytes of the model name (NULs in the place of the bytes a shorter name
\* lacks) and a NUL, 23 zero bytes; so is the value of tag ACQ_DEV_ID of a
\* record, for the name "ECG90A".
C15_MachineId ==
    /\ sec.st = "machine_id" =>
          /\ Len(sec.buf) = 37
          /\ sec.buf = Zeros(8) \o FirstFive(sec.data) \o << 0 >> \o Zeros(23)
    /\ ScpRecordOnDisk =>
          TagData(scpFile.s1, 0, TAG_ACQ_DEV_ID)
              = << Zeros(8) \o << 69, 67, 71, 57, 48, 0 >> \o Zeros(23) >>

\* The name "EC", shorter than five bytes.
C15_Witness ==
    /\ sec.st = "machine_id" /\ sec.data = << 69, 67 >>
    /\ Len(sec.buf) = 37
    /\ SubSeq(sec.buf, 9, 14) = << 69, 67, 0, 0, 0, 0 >>

\* C21: when the constructor reads a header whose timestamp string is not
\* YYYY-MM-DD HH:MM:SS, construction goes on: the timestamp of the recording
\* is the modification time of the file in that format and TIMESTAMP_BAD is
\* set; when the string parses it is kept and the bit is not set.
C21_TimestampFallback ==
    rec.state = "ready" =>
        IF HeaderTimestamp(file) = GoodTimestamp
        THEN rec.timestamp = GoodTimestamp /\ ~HasBit(rec.err, TIMESTAMP_BAD)
        ELSE rec.timestamp = FileMtime /\ HasBit(rec.err, TIMESTAMP_BAD)

C21_Witness ==
    /\ last.op = "init" /\ rec.state = "ready"
    /\ HeaderTimestamp(file) = BadTimestamp
    /\ rec.timestamp = FileMtime /\ rec.err = TIMESTAMP_BAD

----------------------------------------------------------------------------
(* The Huffman decoder: literals and the table *)

\* Bit p (from 0, the high bit of a byte first) of the bytes data.
BitAt(data, p) == (data[(p \div 8) + 1] \div (2 ^ (7 - (p % 8)))) % 2

\* The n bits of data from bit p on, the first the most significant.
RECURSIVE BitsFrom(_, _, _)
BitsFrom(data, p, n) ==
    IF n = 0 THEN 0 ELSE 2 * BitsFrom(data, p, n - 1) + BitAt(data, p + n - 1)

\* v, n bits wide, as a two's complement number.
TwosComplement(v, n) == IF v >= 2 ^ (n - 1) THEN v - 2 ^ n ELSE v

\* The width of the literal the escape prefix announces.
LiteralWidth(prefix) == IF prefix = 1022 THEN 8 ELSE 16

\* The decoder is reading a literal.
InLiteral(h) == h.st = "run" /\ h.get_orig_bits > 0

\* One step of a decoder that is in or enters a literal, or ends.
LiteralStep ==
    /\ hd.st = "run" /\ hd'.st = "run" /\ ~InLiteral(hd) /\ InLiteral(hd') =>
          \* the escape: ten bits, 1111111110 or 1111111111
          /\ hd'.size = 10 /\ hd'.huffman_prefix \in {1022, 1023}
          /\ hd'.huffman_prefix = BitsFrom(hd.data, hd'.pos - 10, 10)
          /\ hd'.get_orig_bits = LiteralWidth(hd'.huffman_prefix)
          /\ hd'.orig_bits_buffer = << >>
          /\ hd'.out = hd.out
    /\ InLiteral(hd) /\ hd'.st = "run" =>
          LET n == LiteralWidth(hd.huffman_prefix)
              taken == Len(hd.orig_bits_buffer) + 1
          IN  /\ hd.huffman_prefix \in {1022, 1023} /\ hd.size = 10
              /\ hd.get_orig_bits + Len(hd.orig_bits_buffer) = n
              /\ hd'.pos = hd.pos + 1
              /\ IF taken < n
                 THEN \* no match is tried: the prefix stays, nothing is yielded
                      /\ hd'.get_orig_bits = hd.get_orig_bits - 1
                      /\ hd'.huffman_prefix = hd.huffman_prefix /\ hd'.size = hd.size
                      /\ hd'.out = hd.out
                 ELSE \* the literal is the n bits after the escape
                      /\ hd'.out = Append(hd.out,
                             TwosComplement(BitsFrom(hd.data, hd'.pos - n, n), n))
                      /\ hd'.get_orig_bits = 0
                      /\ hd'.huffman_prefix = 0 /\ hd'.size = 0
                      /\ hd'.orig_bits_buffer = << >>
    /\ InLiteral(hd) /\ hd'.st = "end" =>
          \* the input ends in the literal: nothing is yielded for it
          hd'.out = hd.out

\* C22: after the prefix 1111111110 (1111111111) the decoder takes exactly
\* the next 8 (16) bits, the first the most significant, trying no prefix
\* match, yields them as a two's complement number of that width and is
\* back at an empty prefix; when the input ends inside the literal nothing
\* is yielded for it.
C22_LiteralEscapes == [][LiteralStep]_vars

\* 1111111111, then 0x8001: -32767, and six more bits.
C22_Witness ==
    /\ hd.st = "end" /\ hd.data = << 255, 224, 0, 64 >>
    /\ hd.out = << -32767, 0, 0, 0, 0, 0, 0 >>

\* Every string of ten bits begins with exactly one code of the table.
TablePrefixFreeAndComplete ==
    \A bits \in 0..1023 :
        Cardinality({ key \in DefaultTableKeys :
                         key[2] = bits \div (2 ^ (10 - key[1])) }) = 1

\* C29: in every state of the decoder the prefix is at most 10 bits long
\* and from 0 to 16 bits of a literal are pending; the table is prefix-free
\* and complete, so a prefix that has matched nothing is shorter than 10
\* bits.
C29_DecoderBounded ==
    /\ TablePrefixFreeAndComplete
    /\ hd.st \in {"run", "end"} =>
          /\ hd.size \in 0..10
          /\ hd.get_orig_bits \in 0..16
          /\ hd.huffman_prefix \in 0..1023
          /\ hd.get_orig_bits = 0 => hd.size <= 9
          /\ hd.get_orig_bits > 0 => hd.size = 10

\* 111111110 has matched nothing yet: the -8 is one bit away.
C29_Witness ==
    /\ hd.st = "run" /\ hd.data = << 255, 64 >> /\ hd.pos = 9
    /\ hd.size = 9 /\ hd.huffman_prefix = 510 /\ hd.get_orig_bits = 0

----------------------------------------------------------------------------
(* The handle of the row iterator *)

\* C23: every row iterator that opened the device file has closed its
\* handle once it is finished, whether it ran to its end (exhaustion, short
\* read, early end of data), was abandoned by its consumer, or raised while
\* a row was built.
C23_HandleClosed ==
    \A i \in DOMAIN its :
        its[i].st \in {"done", "abandoned", "raised"} => ~its[i].open

----------------------------------------------------------------------------
(* Two row iterators *)

\* What the constructor left of the recording, and the pass of a lone
\* iterator over it.
AsConstructed == ConstructRec(file, rec.data_series, rec.sample_bits)
LonePass == FullPass(file, AsConstructed, ECG90A_XOFFSET, DEFAULT_CSV_COLUMNS)
LoneRows == ExpandRows(LonePass.rows)

\* C24: two row iterators over one recording, advanced in any order, each
\* yield the rows a lone iterator yields, and when both have finished the
\* error word is the one a single pass leaves.
C24_TwoIterators ==
    /\ \A i \in DOMAIN its :
          /\ its[i].st \in {"running", "done"} =>
                /\ Len(its[i].out) <= Len(LoneRows)
                /\ its[i].out = SubSeq(LoneRows, 1, Len(its[i].out))
                /\ its[i].read_rows = Len(its[i].out)
          /\ its[i].st = "done" => its[i].out = LoneRows /\ LonePass.end # "raise"
          /\ its[i].st = "raised" => its[i].out = LoneRows /\ LonePass.end = "raise"
    /\ (\A i \in DOMAIN its : its[i].st = "done") => rec.err = LonePass.err

\* Scenario S1: one iterator has finished, the other has yielded one row.
C24_Witness ==
    /\ DOMAIN its = TwoIters
    /\ file = DeviceFile(ECG90A_DATA_SERIES, S1Payload, GoodTimestamp)
    /\ its["a"].st = "done" /\ Len(its["a"].out) = 2
    /\ its["b"].st = "running" /\ Len(its["b"].out) = 1
    /\ rec.err = 12

----------------------------------------------------------------------------
(* What a returned path, a clean constructor and a written record promise *)

\* C25: whenever export_csv or export_scp returns an output path, the
\* error word of the recording is zero on return.
C25_PathMeansNoError ==
    (last.op \in {"export_csv", "export_scp"} /\ last.ret = "path") => rec.err = 0

\* C26: every recording whose constructor finishes with err = 0 has
\* file_size >= HEADER_LEN + FOOTER_LEN and total_samples >= 0.
C26_CleanConstructorSizes ==
    (last.op = "init" /\ rec.err = 0) =>
        /\ rec.file_size >= HEADER_LEN + FOOTER_LEN
        /\ rec.samples >= 0

\* C27: every value export_scp packs into Section #6 lies in
\* -32768..32767, so the lead loop never ends in struct.error.
C27_SamplesFitInt16 ==
    (last.op = "export_scp" /\ last.opened) =>
        /\ PackLeads(FullPass(file, rec, last.args.xoffset,
                              DEFAULT_CSV_COLUMNS).rows) # "struct.error"
        /\ LET stored == StoredRows(FullPass(file, rec, last.args.xoffset,
                                             DEFAULT_CSV_COLUMNS).rows)
           IN  \A k \in 1..Len(stored) : \A i \in 1..Len(stored[k].row) :
                   FitsInt16(StoredValue(stored[k].row[i]))

\* C28: in every record export_scp emits, the end_sample of Section #3 is
\* the number of samples stored for each lead in Section #6.
C28_EndSampleIsStored ==
    (last.op = "export_scp" /\ last.ret = "path") =>
        scpFile.ending_sample = SegRows(scpFile.rows)

====
